---- MODULE Spec2Model ----
(***************************************************************************)
(* A model of scripts/generate-route.mjs (src/unnamed/part_003): the route *)
(* generator of the bus game.  The script fetches or reads an OSM dataset, *)
(* builds a road graph, routes a loop through waypoints with Dijkstra,     *)
(* projects it to game coordinates, cleans and resamples the polyline,     *)
(* closes the loop, matches bus stops and writes routeData.js.             *)
(*                                                                         *)
(* Units.  Game coordinates are integers counting tenths of a game unit    *)
(* (the script rounds every emitted coordinate with Math.round(v*10)/10).  *)
(* A point is a pair <<x, z>>.  Geographic positions lie on one meridian:  *)
(* a node has a latitude counted in 1/111320 of a degree (one projected    *)
(* metre), so that the projected x of every node is 0, its projected z is  *)
(* minus its latitude, and haversineM measures the absolute difference of  *)
(* two latitudes times one constant (R * pi / 180 / 111320).  Polylines in *)
(* the plane are the inputs of the stage specifications SpecClean and      *)
(* SpecResample.  Names are sequences of words; <<>> stands for null and   *)
(* for "".                                                                 *)
(*                                                                         *)
(* Floating point.  The script computes in IEEE-754 doubles; the model     *)
(* computes the real values, in whole numbers.  Values that differ as real *)
(* numbers differ by far more than the script's rounding errors, and the   *)
(* script compares and rounds them as the model does.  Where two compared  *)
(* values are equal as real numbers, or a rounded value lies midway        *)
(* between two results, the script's outcome hangs on its rounding errors: *)
(* the model follows it where the script's operations are exact or the two *)
(* values come from the same operations on the same operands, and where    *)
(* either outcome leads to the same result; elsewhere the model's          *)
(* operators have no value (FloatCmp, MathRound, Hypot), and the inputs of *)
(* the specifications are such that no such case is evaluated.             *)
(***************************************************************************)
EXTENDS Integers, Sequences, FiniteSets, TLC

\* ------------------------------------------------------------ constants

TARGET_SPAN == 500
MIN_STOP_SPACING == 40
STOP_MATCH_RADIUS == 30
SAMPLE_INTERVAL == 25
MIN_ROUTE_POINTS == 10
MIN_STOPS == 6
SYNTH_DIVISOR == 8
MAX_STOPS == 10
DEDUP_WINDOW == 3
CLOSE_GAP == 5
RETRIES == 3
\* tenths of a game unit per game unit: Math.round(v * 10) / 10
UNIT == 10

DRIVEABLE_TYPES ==
    {"motorway", "trunk", "primary", "secondary", "tertiary", "residential",
     "unclassified", "motorway_link", "trunk_link", "primary_link",
     "secondary_link", "tertiary_link"}

\* JavaScript's null / undefined for a node id, a latitude and a path
NullId == 0
NoLat == -1
NoPath == <<>>

\* ------------------------------------------------------------ arithmetic

Abs(n) == IF n < 0 THEN -n ELSE n

Min2(a, b) == IF a < b THEN a ELSE b

\* the sign (-1, 0, 1) of a - b for two doubles of the script whose real values
\* are a and b.  Doubles of equal real value are equal when they were computed
\* without rounding error or by the same operations on the same operands
\* (exact); otherwise the script's comparison hangs on its rounding errors
FloatCmp(a, b, exact) ==
    IF a < b THEN -1
    ELSE IF a > b THEN 1
    ELSE IF exact THEN 0
    ELSE CHOOSE sign \in {} : TRUE

\* Math.round(v) of a double v whose real value is n / d, for d > 0: the nearest
\* integer.  The script computes every v it rounds with rounding errors, and
\* the result for a real value midway between two integers hangs on them
MathRound(n, d) ==
    IF (2 * n + d) % (2 * d) = 0 THEN CHOOSE r \in {} : TRUE
    ELSE (2 * n + d) \div (2 * d)

DistSq(p, q) == (p[1] - q[1]) * (p[1] - q[1]) + (p[2] - q[2]) * (p[2] - q[2])

\* Math.hypot(dx / 10, dz / 10) in tenths, for a length of whole tenths (the
\* lengths the resampler adds up; another length has no whole number)
Hypot(dx, dz) ==
    CHOOSE r \in 0..(Abs(dx) + Abs(dz)) : r * r = dx * dx + dz * dz

\* whether Math.hypot(p[0] - q[0], p[1] - q[1]) is computed without rounding
\* error: a double holds whole and half game units exactly, and their
\* differences; Math.hypot of one difference and 0 is its absolute value
ExactHypot(p, q) ==
    /\ p[1] = q[1] \/ p[2] = q[2]
    /\ \A v \in {p[1], p[2], q[1], q[2]} : v % (UNIT \div 2) = 0

\* whether Math.hypot gives one double for p - q and for r - s, two differences
\* of one real length: when both are computed without error, when they are the
\* same operands, or when the coordinates are held exactly and the differences
\* are the same two magnitudes (Math.hypot works on the absolute values, and
\* adds the two squares in either order to the same sum)
SameHypot(p, q, r, s) ==
    \/ ExactHypot(p, q) /\ ExactHypot(r, s)
    \/ <<p, q>> = <<r, s>>
    \/ /\ \A v \in {p[1], p[2], q[1], q[2], r[1], r[2], s[1], s[2]} : v % (UNIT \div 2) = 0
       /\ {Abs(p[1] - q[1]), Abs(p[2] - q[2])} = {Abs(r[1] - s[1]), Abs(r[2] - s[2])}

\* the sign of Math.hypot(p[0] - q[0], p[1] - q[1]) - c / 10
HypotCmp(p, q, c) == FloatCmp(DistSq(p, q), c * c, ExactHypot(p, q))

\* ------------------------------------------------------------ haversine

\* A length (an edge's dist, a sum of dijkstra) is held as the terms that were
\* added to 0 to give it, in their order: <<n>> is the whole number n > 0, and
\* <<lo, hi>> the double that haversineM gave for the latitudes lo < hi.  Adding
\* 0 changes no double, so 0 is no term, and the length 0 is <<>>.

\* haversineM of two points of one meridian is R * |dLat|.  The script's value
\* carries a rounding error that depends on both latitudes: it is 0 for one
\* latitude, the same double for the same two latitudes in either order (the
\* formula is symmetric), and over the same |dLat| elsewhere it may differ
haversineM(lat1, lat2) ==
    IF lat1 = lat2 THEN <<>> ELSE IF lat1 < lat2 THEN <<<<lat1, lat2>>>> ELSE <<<<lat2, lat1>>>>

\* the real value of a length: a whole number counts R * pi / 180 / 111320
\* metres, latitudes being counted in 1/111320 degree
RECURSIVE LengthOf(_)
LengthOf(len) ==
    IF len = <<>> THEN 0
    ELSE LET t == len[Len(len)] IN
         LengthOf(SubSeq(len, 1, Len(len) - 1)) + (IF Len(t) = 1 THEN t[1] ELSE t[2] - t[1])

\* two lengths of one real value are the same double: sums of whole numbers are
\* exact, and the same terms added in the same order give the same double;
\* other sums of one real value may differ by their rounding errors
SameSum(a, b) == a = b \/ \A k \in 1..(Len(a) + Len(b)) : Len((a \o b)[k]) = 1

\* ------------------------------------------------------------ buildGraph

\* nodes: id -> lat, of the node elements that carry coordinates (Map.set: the last wins)
RECURSIVE NodeTable(_, _, _)
NodeTable(els, k, acc) ==
    IF k > Len(els) THEN acc
    ELSE LET el == els[k] IN
         IF el.type = "node" /\ el.lat # NoLat
         THEN NodeTable(els, k + 1, (el.id :> el.lat) @@ acc)
         ELSE NodeTable(els, k + 1, acc)

IsBusStop(el) ==
    el.type = "node" /\ (el.highway = "bus_stop" \/ el.public_transport = "platform")

\* el.tags?.name || el.tags?.description || null
StopName(el) == IF el.name # <<>> THEN el.name ELSE el.description

RECURSIVE BusStopList(_, _)
BusStopList(els, k) ==
    IF k > Len(els) THEN <<>>
    ELSE LET el == els[k] IN
         IF IsBusStop(el)
         THEN <<[lat |-> el.lat, name |-> StopName(el)]>> \o BusStopList(els, k + 1)
         ELSE BusStopList(els, k + 1)

\* a faulty variant: every way tagged highway is taken, whatever its class
IsDriveableWayAny(el) == el.type = "way" /\ el.highway # ""

IsDriveableWay(el) ==
    el.type = "way" /\ el.highway # "" /\ el.highway \in DRIVEABLE_TYPES

RECURSIVE WayList(_, _)
WayList(els, k) ==
    IF k > Len(els) THEN <<>>
    ELSE LET el == els[k] IN
         IF IsDriveableWay(el)
         THEN <<[nodes |-> el.nodes, name |-> el.name, highway |-> el.highway]>>
                  \o WayList(els, k + 1)
         ELSE WayList(els, k + 1)

\* The adjacency Map: keys in insertion order, and each key's edge list.
EmptyAdj == [keys |-> <<>>, edges |-> <<>>]

AdjHas(adj, id) == \E k \in 1..Len(adj.keys) : adj.keys[k] = id

AdjGet(adj, id) == IF AdjHas(adj, id) THEN adj.edges[id] ELSE <<>>

addEdge(adj, from, to, dist, name) ==
    LET e == [to |-> to, dist |-> dist, name |-> name] IN
    IF AdjHas(adj, from)
    THEN [adj EXCEPT !.edges[from] = Append(@, e)]
    ELSE [keys |-> Append(adj.keys, from), edges |-> (from :> <<e>>) @@ adj.edges]

\* a faulty variant: the edge is added in one direction only
AddPairOneWay(adj, nodes, a, b, name) ==
    IF a \notin DOMAIN nodes \/ b \notin DOMAIN nodes THEN adj
    ELSE addEdge(adj, a, b, haversineM(nodes[a], nodes[b]), name)

\* both directions of one node pair of a way
AddPair(adj, nodes, a, b, name) ==
    IF a \notin DOMAIN nodes \/ b \notin DOMAIN nodes THEN adj
    ELSE LET dist == haversineM(nodes[a], nodes[b]) IN
         addEdge(addEdge(adj, a, b, dist, name), b, a, dist, name)

RECURSIVE AddWay(_, _, _, _)
AddWay(adj, nodes, way, i) ==
    IF i > Len(way.nodes) - 1 THEN adj
    ELSE AddWay(AddPair(adj, nodes, way.nodes[i], way.nodes[i + 1], way.name),
                nodes, way, i + 1)

RECURSIVE AddWays(_, _, _, _)
AddWays(adj, nodes, ways, k) ==
    IF k > Len(ways) THEN adj
    ELSE AddWays(AddWay(adj, nodes, ways[k], 1), nodes, ways, k + 1)

buildGraph(osmData) ==
    LET nodes == NodeTable(osmData.elements, 1, <<>>) IN
    [nodes |-> nodes,
     adj |-> AddWays(EmptyAdj, nodes, WayList(osmData.elements, 1), 1),
     busStops |-> BusStopList(osmData.elements, 1)]

\* ------------------------------------------------------------ findNearestNode

\* a faulty variant: the scan runs over the node table, connected or not
NearestScanAllNodes(nodes, adj, lat, k, bestId, bestDist) ==
    CHOOSE id \in DOMAIN nodes :
        \A other \in DOMAIN nodes :
            LengthOf(haversineM(lat, nodes[id])) <= LengthOf(haversineM(lat, nodes[other]))

RECURSIVE NearestScan(_, _, _, _, _, _)
NearestScan(nodes, adj, lat, k, bestId, bestDist) ==
    IF k > Len(adj.keys) THEN bestId
    ELSE LET id == adj.keys[k] IN
         IF id \notin DOMAIN nodes
         THEN NearestScan(nodes, adj, lat, k + 1, bestId, bestDist)
         ELSE LET d == haversineM(lat, nodes[id]) IN
              IF bestId = NullId
                 \/ FloatCmp(LengthOf(d), LengthOf(bestDist), SameSum(d, bestDist)) < 0
              THEN NearestScan(nodes, adj, lat, k + 1, id, d)
              ELSE NearestScan(nodes, adj, lat, k + 1, bestId, bestDist)

findNearestNode(nodes, adj, lat) == NearestScan(nodes, adj, lat, 1, NullId, <<>>)

\* ------------------------------------------------------------ dijkstra

\* The scan of the queue and newDist < dist.get(v) compare the sums of edge
\* lengths as the doubles they are.  Two sums of one real value that are not
\* the same double compare by their rounding errors: the scan and the
\* relaxation then have more than one outcome, the loop follows each of them,
\* and dijkstra has a value where all of them end with the same path.  The
\* datasets of Spec join two nodes by one route, or by parallel ways over the
\* same two nodes.  A sum d is held with its real value, as [m, of].

\* a faulty variant: the queue is served first in, first out
ExtractFirstIdx(pq) == {1}

\* the index the scan ends on, the first of the least d (it keeps the earlier of
\* equal entries): the first entry of each double among the least real values
ExtractMinIdx(pq) ==
    LET least == {i \in 1..Len(pq) : \A j \in 1..Len(pq) : pq[j].d.m >= pq[i].d.m}
    IN {i \in least : \A j \in least : j < i => ~SameSum(pq[j].d.of, pq[i].d.of)}

\* the states the loop over the edges of u may leave, from edge k on
RECURSIVE Relax(_, _, _, _, _)
Relax(st, u, du, edges, k) ==
    IF k > Len(edges) THEN {st}
    ELSE LET v == edges[k].to
             newDist == [m |-> du.m + LengthOf(edges[k].dist), of |-> du.of \o edges[k].dist]
             skip == Relax(st, u, du, edges, k + 1)
             take == Relax([st EXCEPT !.dist = (v :> newDist) @@ @,
                                      !.prev = (v :> u) @@ @,
                                      !.pq = Append(@, [id |-> v, d |-> newDist])],
                           u, du, edges, k + 1)
         IN
         IF v \in st.visited THEN skip
         ELSE IF v \notin DOMAIN st.dist \/ newDist.m < st.dist[v].m THEN take
         ELSE IF newDist.m > st.dist[v].m \/ SameSum(newDist.of, st.dist[v].of) THEN skip
         ELSE take \cup skip

\* the states the while loop may end in
RECURSIVE DijkstraLoop(_, _, _)
DijkstraLoop(adj, st, endId) ==
    IF st.pq = <<>> THEN {st}
    ELSE LET from(i) ==
                 LET u == st.pq[i].id
                     du == st.pq[i].d
                     popped == [st EXCEPT !.pq = SubSeq(@, 1, i - 1)
                                                     \o SubSeq(@, i + 1, Len(@))]
                     seen == [popped EXCEPT !.visited = @ \cup {u}]
                 IN
                 IF u \in st.visited THEN DijkstraLoop(adj, popped, endId)
                 ELSE IF u = endId THEN {seen}
                 ELSE IF ~AdjHas(adj, u) THEN DijkstraLoop(adj, seen, endId)
                 ELSE UNION {DijkstraLoop(adj, next, endId) :
                                next \in Relax(seen, u, du, adj.edges[u], 1)}
         IN UNION {from(i) : i \in ExtractMinIdx(st.pq)}

\* while (cur !== undefined) { path.unshift(cur); cur = prev.get(cur); }
RECURSIVE WalkBack(_, _, _)
WalkBack(prev, cur, acc) ==
    IF cur \in DOMAIN prev THEN WalkBack(prev, prev[cur], <<cur>> \o acc)
    ELSE <<cur>> \o acc

dijkstra(adj, startId, endId) ==
    LET ends == DijkstraLoop(adj,
                    [dist |-> (startId :> [m |-> 0, of |-> <<>>]), prev |-> <<>>,
                     visited |-> {},
                     pq |-> <<[id |-> startId, d |-> [m |-> 0, of |-> <<>>]]>>],
                    endId)
        paths == {IF endId \notin DOMAIN st.prev /\ startId # endId THEN NoPath
                  ELSE WalkBack(st.prev, endId, <<>>) : st \in ends}
    IN CHOOSE path \in paths : paths = {path}

\* ------------------------------------------------------------ buildRoute

\* from.name.split(' (')[0]: a waypoint's name is its words and a parenthetical
StripParen(name) == name.base

\* a faulty variant: the name of the last edge to b, not of the first
EdgeNameLast(adj, a, b) ==
    LET edges == AdjGet(adj, a)
        hits == {k \in 1..Len(edges) : edges[k].to = b}
    IN IF hits = {} THEN <<>>
       ELSE edges[CHOOSE k \in hits : \A h \in hits : k >= h].name

\* edges.find((e) => e.to === b)?.name of the edge list of a
EdgeName(adj, a, b) ==
    LET edges == AdjGet(adj, a)
        hits == {k \in 1..Len(edges) : edges[k].to = b}
    IN IF hits = {} THEN <<>>
       ELSE edges[CHOOSE k \in hits : \A h \in hits : k <= h].name

\* streetLabels.push(edge?.name || from.name.split(' (')[0])
LabelAt(adj, path, j, from) ==
    IF j > 1 /\ EdgeName(adj, path[j - 1], path[j]) # <<>>
    THEN EdgeName(adj, path[j - 1], path[j])
    ELSE StripParen(from.name)

\* a faulty variant: the path is appended whole, its leading node never dropped
StartIdxFirst(full, path) == 1

\* startIdx of the append loop, as a position of the 1-based path
StartIdx(full, path) ==
    IF Len(full) > 0 /\ path[1] = full[Len(full)] THEN 2 ELSE 1

\* one waypoint pair's path appended to the growing route: the nodes ...
AppendNodes(full, path) == full \o SubSeq(path, StartIdx(full, path), Len(path))

\* a faulty variant: a label for each edge of the path, none for its first node
AppendLabelsEdgesOnly(labels, full, path, adj, from) ==
    labels \o [k \in 1..(Len(path) - 1) |-> LabelAt(adj, path, k + 1, from)]

\* ... and one label per appended node
AppendLabels(labels, full, path, adj, from) ==
    labels \o [k \in 1..(Len(path) - StartIdx(full, path) + 1) |->
                  LabelAt(adj, path, k + StartIdx(full, path) - 1, from)]

\* ------------------------------------------------------------ projectToGameCoords

SeqMin(s) == CHOOSE v \in {s[k] : k \in 1..Len(s)} : \A k \in 1..Len(s) : v <= s[k]

SeqMax(s) == CHOOSE v \in {s[k] : k \in 1..Len(s)} : \A k \in 1..Len(s) : v >= s[k]

\* Math.round(((z - cz) * scale) * 10) with z = -(lat - lat0) * 111320,
\* cz = (minZ + maxZ) / 2 and scale = TARGET_SPAN / (maxZ - minZ); lat0 cancels
ProjectZ(lat, minLat, maxLat) ==
    MathRound((minLat + maxLat - 2 * lat) * TARGET_SPAN * UNIT, 2 * (maxLat - minLat))

\* gameRoute of a route whose nodes lie on the meridian and span more than one latitude
GameRoute(routeLat) ==
    [k \in 1..Len(routeLat) |-> <<0, ProjectZ(routeLat[k], SeqMin(routeLat), SeqMax(routeLat))>>]

\* a stop without coordinates is projected from undefined: its gamePos is
\* [NaN, NaN], held as <<>>
GameStops(routeLat, busStops) ==
    [k \in 1..Len(busStops) |->
        [name |-> busStops[k].name,
         gamePos |-> IF busStops[k].lat = NoLat THEN <<>>
                     ELSE <<0, ProjectZ(busStops[k].lat, SeqMin(routeLat), SeqMax(routeLat))>>]]

\* ------------------------------------------------------------ topology cleaning

Dot(a, b, c) == (b[1] - a[1]) * (c[1] - b[1]) + (b[2] - a[2]) * (c[2] - b[2])

\* magAB < 0.01 || magBC < 0.01 || cosAngle < 0 at the interior point i (1-based);
\* a length in whole tenths is below 0.01 game units exactly when it is 0
\* a dot product whose real value is 0 is the double 0 when each of its two
\* products has a factor 0, or when every coordinate is a whole or a half
IsBacktrack(route, i) ==
    LET a == route[i - 1]
        b == route[i]
        c == route[i + 1]
    IN \/ DistSq(a, b) < 1
       \/ DistSq(b, c) < 1
       \/ FloatCmp(Dot(a, b, c), 0,
                    \/ (a[1] = b[1] \/ b[1] = c[1]) /\ (a[2] = b[2] \/ b[2] = c[2])
                    \/ \A v \in {a[1], a[2], b[1], b[2], c[1], c[2]} :
                           v % (UNIT \div 2) = 0) < 0

\* a faulty variant: the scan starts at the first point, which it removes
ToRemoveFromFirst(route) ==
    {i \in 1..(Len(route) - 1) : i = 1 \/ IsBacktrack(route, i)}

\* toRemove of one pass of the while loop
ToRemove(route) == {i \in 2..(Len(route) - 1) : IsBacktrack(route, i)}

RECURSIVE FilterOut(_, _, _)
FilterOut(s, drop, k) ==
    IF k > Len(s) THEN <<>>
    ELSE IF k \in drop THEN FilterOut(s, drop, k + 1)
    ELSE <<s[k]>> \o FilterOut(s, drop, k + 1)

\* the positions of route that the duplicate collapse keeps: the first, and every
\* point more than 0.5 from the point kept last
RECURSIVE KeptIdx(_, _, _)
KeptIdx(route, k, kept) ==
    IF k > Len(route) THEN kept
    ELSE IF HypotCmp(route[k], route[kept[Len(kept)]], UNIT \div 2) > 0
    THEN KeptIdx(route, k + 1, Append(kept, k))
    ELSE KeptIdx(route, k + 1, kept)

Collapse(s, route) ==
    LET kept == KeptIdx(route, 2, <<1>>) IN [k \in 1..Len(kept) |-> s[kept[k]]]

\* ------------------------------------------------------------ arc-length resampling

RECURSIVE CumLen(_, _, _)
CumLen(route, k, acc) ==
    IF k > Len(route) THEN acc
    ELSE CumLen(route, k + 1,
                Append(acc, acc[Len(acc)]
                            + Hypot(route[k][1] - route[k - 1][1], route[k][2] - route[k - 1][2])))

\* a faulty variant: the segment index never advances
AdvanceSegStuck(cum, n, seg, dist) == seg

\* while (segIdx < cleanRoute.length - 2 && cumLen[segIdx + 1] < dist) segIdx++
RECURSIVE AdvanceSeg(_, _, _, _)
AdvanceSeg(cum, n, seg, dist) ==
    IF seg < n - 1 /\ cum[seg + 1] < dist THEN AdvanceSeg(cum, n, seg + 1, dist) ELSE seg

\* the point at arc length dist of segment seg, each coordinate rounded to a tenth
Interpolate(route, cum, seg, dist) ==
    LET segLen == cum[seg + 1] - cum[seg]
        a == route[seg]
        b == route[seg + 1]
    IN IF segLen > 0
       THEN <<MathRound(a[1] * segLen + (dist - cum[seg]) * (b[1] - a[1]), segLen),
              MathRound(a[2] * segLen + (dist - cum[seg]) * (b[2] - a[2]), segLen)>>
       ELSE a

RECURSIVE SampleLoop(_, _, _, _, _)
SampleLoop(route, cum, seg, dist, acc) ==
    IF dist < cum[Len(cum)]
    THEN LET s == AdvanceSeg(cum, Len(route), seg, dist) IN
         SampleLoop(route, cum, s, dist + SAMPLE_INTERVAL * UNIT,
                    Append(acc, Interpolate(route, cum, s, dist)))
    ELSE acc

\* finalRoute before loop closure.  A sample that falls on a vertex is that
\* vertex from either of its two segments, whichever the doubles of cumLen pick.
\* When totalLen is a whole number of intervals and cumLen is not exact, the
\* loop may run once more and emit the last point itself: the same route as
\* when it does not and the last point is pushed after the loop
Resample(route) ==
    LET cum == CumLen(route, 2, <<0>>)
        sampled == SampleLoop(route, cum, 1, SAMPLE_INTERVAL * UNIT, <<route[1]>>)
        last == route[Len(route)]
        pushed == HypotCmp(last, sampled[Len(sampled)], UNIT) > 0
        onEnd == /\ cum[Len(cum)] > 0 /\ cum[Len(cum)] % (SAMPLE_INTERVAL * UNIT) = 0
                 /\ \E k \in 1..(Len(route) - 1) : ~ExactHypot(route[k], route[k + 1])
    IN IF pushed THEN Append(sampled, last)
       ELSE IF onEnd THEN CHOOSE r \in {} : TRUE
       ELSE sampled

\* the positions of route at the least real distance from p
Nearest(route, p) ==
    {i \in 1..Len(route) :
        \A j \in 1..Len(route) : DistSq(route[j], p) >= DistSq(route[i], p)}

\* the first position of route at the least distance from p (d < bestDist).
\* Several points at the least real distance have to be at one double
NearestIdx(route, p) ==
    LET near == Nearest(route, p)
        first == CHOOSE i \in near : \A j \in near : i <= j
    IN IF \A i \in near : SameHypot(route[i], p, route[first], p)
       THEN first
       ELSE CHOOSE i \in {} : TRUE

\* cleanLabels[bestIdx] || 'Unknown'; points at the least real distance that
\* carry one label give that label, whichever of them is found the nearest
MapLabels(final, route, labels) ==
    [k \in 1..Len(final) |->
        LET near == Nearest(route, final[k])
            l == IF \A i, j \in near : labels[i] = labels[j]
                 THEN labels[CHOOSE i \in near : TRUE]
                 ELSE labels[NearestIdx(route, final[k])]
        IN IF l # <<>> THEN l ELSE <<"Unknown">>]

\* ------------------------------------------------------------ closeLoop

\* a faulty variant: the route is returned as it came
closeLoopNever(route) == route

closeLoop(route) ==
    IF HypotCmp(route[1], route[Len(route)], CLOSE_GAP * UNIT) > 0
    THEN Append(route, route[1])
    ELSE route

\* ------------------------------------------------------------ matchBusStops

Sq(n) == n * n

\* a faulty variant: every stop becomes a candidate, however far from the route
RECURSIVE CandidatesAnyDistance(_, _, _, _)
CandidatesAnyDistance(route, gameStops, matchRadius, k) ==
    IF k > Len(gameStops) THEN <<>>
    ELSE IF gameStops[k].gamePos = <<>>
    THEN CandidatesAnyDistance(route, gameStops, matchRadius, k + 1)
    ELSE LET near == Nearest(route, gameStops[k].gamePos)
             i == CHOOSE n \in near : \A m \in near : n <= m
         IN
         <<[idx |-> i - 1, dist |-> DistSq(route[i], gameStops[k].gamePos),
            of |-> <<gameStops[k].gamePos, route[i]>>, name |-> gameStops[k].name]>>
             \o CandidatesAnyDistance(route, gameStops, matchRadius, k + 1)

\* the stops whose nearest route point is within matchRadius, in input order;
\* idx is the 0-based position of that point, dist the squared distance in
\* tenths, of the two points that Math.hypot measured.  A stop farther than
\* matchRadius from every point is dropped, whichever point is found the nearest,
\* and so is a stop at [NaN, NaN]: no d < bestDist holds, bestDist stays Infinity
RECURSIVE Candidates(_, _, _, _)
Candidates(route, gameStops, matchRadius, k) ==
    IF k > Len(gameStops) THEN <<>>
    ELSE IF gameStops[k].gamePos = <<>> THEN Candidates(route, gameStops, matchRadius, k + 1)
    ELSE LET pos == gameStops[k].gamePos
             i == NearestIdx(route, pos)
         IN IF \A n \in 1..Len(route) : DistSq(route[n], pos) > Sq(matchRadius * UNIT)
            THEN Candidates(route, gameStops, matchRadius, k + 1)
            ELSE IF HypotCmp(pos, route[i], matchRadius * UNIT) <= 0
            THEN <<[idx |-> i - 1, dist |-> DistSq(route[i], pos),
                    of |-> <<pos, route[i]>>, name |-> gameStops[k].name]>>
                     \o Candidates(route, gameStops, matchRadius, k + 1)
            ELSE Candidates(route, gameStops, matchRadius, k + 1)

\* Array.prototype.sort((a, b) => a.idx - b.idx), which is stable
InsertByIdx(sorted, c) ==
    LET n == Cardinality({k \in 1..Len(sorted) : sorted[k].idx <= c.idx}) IN
    SubSeq(sorted, 1, n) \o <<c>> \o SubSeq(sorted, n + 1, Len(sorted))

RECURSIVE SortByIdx(_, _, _)
SortByIdx(s, k, sorted) ==
    IF k > Len(s) THEN sorted ELSE SortByIdx(s, k + 1, InsertByIdx(sorted, s[k]))

\* whether candidate c takes the place of the retained candidate nearby
Replaces(nearby, c) ==
    \/ nearby.name = <<>> /\ c.name # <<>>
    \/ /\ nearby.name # <<>> /\ c.name # <<>>
       /\ FloatCmp(c.dist, nearby.dist,
                    SameHypot(c.of[1], c.of[2], nearby.of[1], nearby.of[2])) < 0

\* a faulty variant: the pass keeps every candidate
DedupeNone(cands, k, deduped) == cands

RECURSIVE Dedupe(_, _, _)
Dedupe(cands, k, deduped) ==
    IF k > Len(cands) THEN deduped
    ELSE LET c == cands[k]
             near == {j \in 1..Len(deduped) : Abs(deduped[j].idx - c.idx) < DEDUP_WINDOW}
         IN IF near = {} THEN Dedupe(cands, k + 1, Append(deduped, c))
            ELSE LET j == CHOOSE m \in near : \A h \in near : m <= h IN
                 IF Replaces(deduped[j], c)
                 THEN Dedupe(cands, k + 1, [deduped EXCEPT ![j] = c])
                 ELSE Dedupe(cands, k + 1, deduped)

\* a faulty variant: the spacing filter lets every stop through
SpacedAlways(route, lastIdx, idx) == TRUE

\* whether a stop at idx may follow the stop accepted last
Spaced(route, lastIdx, idx) ==
    HypotCmp(route[idx + 1], route[lastIdx + 1], MIN_STOP_SPACING * UNIT) >= 0

RECURSIVE SpaceOut(_, _, _, _)
SpaceOut(route, list, k, selected) ==
    IF k > Len(list) THEN selected
    ELSE IF selected = <<>> \/ Spaced(route, selected[Len(selected)].idx, list[k].idx)
    THEN SpaceOut(route, list, k + 1, Append(selected, list[k]))
    ELSE SpaceOut(route, list, k + 1, selected)

Slice10(s) == SubSeq(s, 1, Min2(Len(s), MAX_STOPS))

\* a faulty variant: the index counts the points from 1
StopOfOneBased(c) == [idx |-> c.idx + 1, name |-> c.name]

StopOf(c) == [idx |-> c.idx, name |-> c.name]

matchBusStops(route, gameStops, matchRadius) ==
    LET sorted == SortByIdx(Candidates(route, gameStops, matchRadius, 1), 1, <<>>)
        selected == Slice10(SpaceOut(route, Dedupe(sorted, 1, <<>>), 1, <<>>))
    IN [k \in 1..Len(selected) |-> StopOf(selected[k])]

\* ------------------------------------------------------------ stop names

\* stop.name.startsWith('Stop ')
StartsWithStop(name) == Len(name) >= 2 /\ name[1] = "Stop"

\* streetLabels[Math.min(stop.idx, streetLabels.length - 1)] || 'Unknown'
LabelOf(idx, streetLabels) ==
    LET at == Min2(idx, Len(streetLabels) - 1) + 1 IN
    IF at \in 1..Len(streetLabels) /\ streetLabels[at] # <<>>
    THEN streetLabels[at] ELSE <<"Unknown">>

assignStreetNames(stops, streetLabels) ==
    [k \in 1..Len(stops) |->
        IF stops[k].name # <<>> /\ ~StartsWithStop(stops[k].name) THEN stops[k]
        ELSE [stops[k] EXCEPT !.name = LabelOf(stops[k].idx, streetLabels)]]

Suffixes == <<"North", "South", "East", "West", "Central">>

RECURSIVE DedupNames(_, _, _)
DedupNames(stops, k, seen) ==
    IF k > Len(stops) THEN stops
    ELSE LET nm == stops[k].name
             count == (IF nm \in DOMAIN seen THEN seen[nm] ELSE 0) + 1
             seen2 == (nm :> count) @@ seen
         IN IF count > 1
            THEN DedupNames([stops EXCEPT ![k].name =
                                Append(nm, Suffixes[((count - 2) % Len(Suffixes)) + 1])],
                            k + 1, seen2)
            ELSE DedupNames(stops, k + 1, seen2)

deduplicateStopNames(stops) == DedupNames(stops, 1, <<>>)

\* ------------------------------------------------------------ stop synthesis

\* for (let i = 0; i < routeLen - 1; i += interval), for interval > 0
RECURSIVE Synthetic(_, _, _)
Synthetic(i, routeLen, interval) ==
    IF i < routeLen - 1
    THEN <<[idx |-> i, name |-> <<"Stop", ToString(i)>>]>>
             \o Synthetic(i + interval, routeLen, interval)
    ELSE <<>>

\* the synthetic stops whose index no matched stop (and no earlier one) holds
RECURSIVE MergeNew(_, _, _)
MergeNew(stops, synthetic, k) ==
    IF k > Len(synthetic) THEN stops
    ELSE IF \E m \in 1..Len(stops) : stops[m].idx = synthetic[k].idx
    THEN MergeNew(stops, synthetic, k + 1)
    ELSE MergeNew(Append(stops, synthetic[k]), synthetic, k + 1)

\* the stride of the synthesis loop
Interval(routeLen) == routeLen \div SYNTH_DIVISOR

\* the synthesis branch for a stride that advances; the merged list is not empty
Synthesize(route, stops, streetLabels) ==
    LET synthetic == assignStreetNames(
                         Synthetic(0, Len(route), Interval(Len(route))), streetLabels)
        merged == SortByIdx(MergeNew(stops, synthetic, 1), 1, <<>>)
    IN Slice10(SpaceOut(route, merged, 1, <<>>))

\* ------------------------------------------------------------ detectJunctionsAndStubs

MIN_STUB_SPACING == 15
MIN_SIDE_LEN == 2
ROUNDABOUT_MARGIN == 5
MAX_STUBS == 20
STUB_BASE_LEN == 20
STUB_LEN_RANGE == 15
JUNCTION_ARMS == 4

\* the unrounded game z of a latitude, in tenths, as the fraction ZNum / ZDen
ZNum(lat, minLat, maxLat) == (minLat + maxLat - 2 * lat) * TARGET_SPAN * UNIT

ZDen(minLat, maxLat) == 2 * (maxLat - minLat)

\* MANUAL_ROUNDABOUTS projected into the game frame (radius = round(radiusM * scale * 10) / 10)
Junctions(roundabouts, minLat, maxLat) ==
    [k \in 1..Len(roundabouts) |->
        [x |-> 0,
         z |-> ProjectZ(roundabouts[k].lat, minLat, maxLat),
         radius |-> MathRound(roundabouts[k].radiusM * TARGET_SPAN * UNIT, maxLat - minLat),
         name |-> roundabouts[k].name,
         arms |-> JUNCTION_ARMS]]

\* Math.hypot(fromGX - existing.x, fromGZ - existing.z) < MIN_STUB_SPACING for
\* some stub; fromGZ is a double with a rounding error
TooClose(stubs, num, den) ==
    \/ \E k \in 1..Len(stubs) : Abs(num - stubs[k].z * den) < MIN_STUB_SPACING * UNIT * den
    \/ \E k \in 1..Len(stubs) :
           FloatCmp(Abs(num - stubs[k].z * den), MIN_STUB_SPACING * UNIT * den, FALSE) < 0

\* Math.hypot(fromGX - j.x, fromGZ - j.z) < j.radius + 5 for some junction
InRoundabout(junctions, num, den) ==
    \/ \E k \in 1..Len(junctions) :
           Abs(num - junctions[k].z * den)
               < (junctions[k].radius + ROUNDABOUT_MARGIN * UNIT) * den
    \/ \E k \in 1..Len(junctions) :
           FloatCmp(Abs(num - junctions[k].z * den),
                    (junctions[k].radius + ROUNDABOUT_MARGIN * UNIT) * den, FALSE) < 0

\* 20 + Math.round(Math.abs(fromGX * 7 + fromGZ * 13) % 15), fromGX being 0.
\* A product that is a whole multiple of 15 as a real number is a double just
\* below or just above it, whose remainder is next to 15 or next to 0
StubLen(num, den) ==
    LET v == 13 * Abs(num)
        m == STUB_LEN_RANGE * UNIT * den
    IN STUB_BASE_LEN
           + (IF v > 0 /\ v % m = 0 THEN CHOOSE r \in {} : TRUE
              ELSE MathRound(v % m, UNIT * den))

\* the stubs after the edge list of one route node, from its k-th edge on; the
\* angle is Math.round(Math.atan2(sdx, sdz) * 1000) with sdx = 0: 0 towards +z,
\* pi towards -z
RECURSIVE StubsOfNode(_, _, _, _, _, _, _, _)
StubsOfNode(stubs, edges, k, nodes, lat, onRoute, junctions, box) ==
    IF k > Len(edges) THEN stubs
    ELSE LET to == edges[k].to
             den == ZDen(box[1], box[2])
             from == ZNum(lat, box[1], box[2])
             next == StubsOfNode(stubs, edges, k + 1, nodes, lat, onRoute, junctions, box)
         IN IF to \in onRoute \/ to \notin DOMAIN nodes THEN next
            ELSE LET sdz == ZNum(nodes[to], box[1], box[2]) - from IN
                 IF FloatCmp(Abs(sdz), MIN_SIDE_LEN * UNIT * den, FALSE) < 0 THEN next
                 ELSE IF TooClose(stubs, from, den) THEN next
                 ELSE IF InRoundabout(junctions, from, den) THEN next
                 ELSE StubsOfNode(
                          Append(stubs, [x |-> 0, z |-> MathRound(from, den),
                                         angle |-> IF sdz > 0 THEN 0 ELSE 3142,
                                         length |-> StubLen(from, den)]),
                          edges, k + 1, nodes, lat, onRoute, junctions, box)

RECURSIVE StubsOfRoute(_, _, _, _, _, _, _)
StubsOfRoute(stubs, ri, nodes, adj, fullNodePath, junctions, box) ==
    IF ri > Len(fullNodePath) THEN stubs
    ELSE LET id == fullNodePath[ri] IN
         IF ~AdjHas(adj, id) \/ id \notin DOMAIN nodes
         THEN StubsOfRoute(stubs, ri + 1, nodes, adj, fullNodePath, junctions, box)
         ELSE StubsOfRoute(
                  StubsOfNode(stubs, adj.edges[id], 1, nodes, nodes[id],
                              {fullNodePath[m] : m \in 1..Len(fullNodePath)}, junctions, box),
                  ri + 1, nodes, adj, fullNodePath, junctions, box)

\* box is <<minLat, maxLat>> of the routed nodes: what scale, cz and lat0 stand for
detectJunctionsAndStubs(nodes, adj, fullNodePath, roundabouts, box) ==
    LET junctions == Junctions(roundabouts, box[1], box[2])
        stubs == StubsOfRoute(<<>>, 1, nodes, adj, fullNodePath, junctions, box)
    IN [junctions |-> junctions,
        sideRoads |-> SubSeq(stubs, 1, Min2(Len(stubs), MAX_STUBS))]

\* ------------------------------------------------------------ writeRouteData

BOUNDS_PADDING == 100
ROUTE_CHUNK == 5

\* Math.floor(t / 10) and Math.ceil(t / 10) of a count of tenths
FloorUnits(t) == t \div UNIT

CeilUnits(t) == -((-t) \div UNIT)

Bounds(route) ==
    LET xs == [k \in 1..Len(route) |-> route[k][1]]
        zs == [k \in 1..Len(route) |-> route[k][2]]
    IN [minX |-> FloorUnits(SeqMin(xs) - BOUNDS_PADDING * UNIT),
        maxX |-> CeilUnits(SeqMax(xs) + BOUNDS_PADDING * UNIT),
        minZ |-> FloorUnits(SeqMin(zs) - BOUNDS_PADDING * UNIT),
        maxZ |-> CeilUnits(SeqMax(zs) + BOUNDS_PADDING * UNIT)]

\* the ROUTE lines: five points a line
RECURSIVE RouteLines(_, _)
RouteLines(route, i) ==
    IF i > Len(route) THEN <<>>
    ELSE <<SubSeq(route, i, Min2(i + ROUTE_CHUNK - 1, Len(route)))>>
             \o RouteLines(route, i + ROUTE_CHUNK)

\* name.replace(/'/g, "\\'"): an apostrophe is a word of its own
EscapeQuotes(name) == [k \in 1..Len(name) |-> IF name[k] = "'" THEN "\\'" ELSE name[k]]

\* the text of routeData.js, field by field; the header carries new Date()
Output(route, stops, junctions, sideRoads, now) ==
    [generated |-> now,
     route |-> RouteLines(route, 1),
     stops |-> [k \in 1..Len(stops) |-> [i |-> stops[k].idx, n |-> EscapeQuotes(stops[k].name)]],
     bounds |-> Bounds(route),
     junctions |-> [k \in 1..Len(junctions) |->
                       [junctions[k] EXCEPT !.name = EscapeQuotes(junctions[k].name)]],
     sideRoads |-> sideRoads]

\* ------------------------------------------------------------ state

VARIABLES
    pc,             \* where main stands
    runNo,          \* the run of the script that is under way: 1, 2, ...
    clock,          \* the wall clock, what new Date() returns
    provider,       \* the dataset the Overpass API holds
    waypoints,      \* LOOP_WAYPOINTS
    cacheFile,      \* .osm-cache-v2.json
    outputFile,     \* routeData.js
    prevOutput,     \* routeData.js as the run before left it
    attempt,        \* fetchOverpass: the attempt under way
    writes,         \* how often this run wrote routeData.js
    exitCode,       \* -1 while the process runs
    stages,         \* the stages this run has completed
    errors,         \* the routing errors this run logged
    osmData, nodes, adj, busStops,
    graphWaypoints, pairIdx, fullNodePath, streetLabels,
    gameRoute, gameStops, cleanRoute, cleanLabels, cleanPass,
    finalRoute, simplifiedStreetLabels, matchedStops, junctions, sideRoads,
    traffic,        \* the game: the vehicles of trafficRef.current
    game            \* the game: its phase and what the controller keeps

env == <<clock, provider, waypoints, cacheFile, outputFile, prevOutput, traffic, game>>
ctl == <<runNo, attempt, writes, exitCode, errors>>
graph == <<osmData, nodes, adj, busStops, graphWaypoints, pairIdx, fullNodePath, streetLabels>>
geom == <<gameRoute, gameStops, cleanRoute, cleanLabels, cleanPass, finalRoute,
          simplifiedStreetLabels>>
out == <<matchedStops, junctions, sideRoads>>
vars == <<pc, stages, env, ctl, graph, geom, out>>

NoFile == [exists |-> FALSE, data |-> <<>>]
FileOf(data) == [exists |-> TRUE, data |-> data]

\* ------------------------------------------------------------ inputs

MaxRuns == 2
MaxWaypoints == 4

NodeEl(id, lat) ==
    [type |-> "node", id |-> id, lat |-> lat, highway |-> "", public_transport |-> "",
     name |-> <<>>, description |-> <<>>, nodes |-> <<>>]

StopEl(id, lat, highway, pt, name, description) ==
    [type |-> "node", id |-> id, lat |-> lat, highway |-> highway, public_transport |-> pt,
     name |-> name, description |-> description, nodes |-> <<>>]

WayEl(id, highway, name, nodeIds) ==
    [type |-> "way", id |-> id, lat |-> NoLat, highway |-> highway, public_transport |-> "",
     name |-> name, description |-> <<>>, nodes |-> nodeIds]

\* Ten nodes of one street, two nodes of a street apart from it, the far end of a
\* side road, and a node without coordinates.  The ways of a dataset: the street,
\* the street apart, a side road and a second way along it, a service road, and
\* a way to the node without coordinates.
NodeEls ==
    <<NodeEl(1, 0), NodeEl(2, 37), NodeEl(3, 80), NodeEl(4, 121), NodeEl(5, 160),
      NodeEl(6, 205), NodeEl(7, 240), NodeEl(8, 290), NodeEl(9, 333), NodeEl(10, 370),
      NodeEl(11, 401), NodeEl(12, 431), NodeEl(13, 137), NodeEl(14, NoLat)>>

StopPool ==
    <<StopEl(21, 10, "bus_stop", "", <<"Palace">>, <<>>),
      StopEl(22, 200, "", "platform", <<>>, <<"Stop", "B">>)>>

Pick(pool, chosen) == FilterOut(pool, {k \in 1..Len(pool) : k \notin chosen}, 1)

Dataset(chainHw, chainName, withIso, stops) ==
    [elements |->
        NodeEls
        \o Pick(StopPool, stops)
        \o <<WayEl(31, chainHw, chainName, <<1, 2, 3, 4, 5, 6, 7, 8, 9, 10>>)>>
        \o (IF withIso THEN <<WayEl(32, "residential", <<>>, <<11, 12>>)>> ELSE <<>>)
        \o <<WayEl(33, "tertiary", <<"Side", "Street">>, <<4, 13>>),
             WayEl(34, "service", <<"Yard">>, <<5, 13>>),
             WayEl(35, "secondary", <<"Nowhere">>, <<10, 14>>),
             WayEl(36, "residential", <<"Side", "Lane">>, <<13, 4>>)>>]

\* the street is tagged with its name, or, in one dataset, has no name tag; where
\* the street is a footway no route is long enough to be projected, the bus
\* stops are never matched, and the datasets carry none
Datasets ==
    {Dataset("primary", <<"The", "Mall">>, iso, st) :
         iso \in BOOLEAN, st \in SUBSET (1..Len(StopPool))}
    \cup {Dataset("footway", <<"The", "Mall">>, iso, {}) : iso \in BOOLEAN}
    \cup {Dataset("primary", <<>>, FALSE, {})}

WaypointPool ==
    {[lat |-> 2, name |-> [base |-> <<"Bridge", "Street">>, paren |-> "south"]],
     [lat |-> 40, name |-> [base |-> <<"Whitehall">>, paren |-> ""]],
     [lat |-> 372, name |-> [base |-> <<"Victoria", "Embankment">>, paren |-> "north"]],
     [lat |-> 410, name |-> [base |-> <<"Birdcage", "Walk">>, paren |-> "west"]]}

\* LOOP_WAYPOINTS: a loop of two waypoints or more, each followed by another place
WaypointLists ==
    {w \in UNION {[1..n -> WaypointPool] : n \in 2..MaxWaypoints} :
        \A k \in 1..(Len(w) - 1) : w[k] # w[k + 1]}

MANUAL_ROUNDABOUTS ==
    <<[name |-> <<"Parliament", "Square">>, lat |-> 300, radiusM |-> 35],
      [name |-> <<"Trafalgar", "Square">>, lat |-> 50, radiusM |-> 30]>>

\* ------------------------------------------------------------ a run of main

\* the state a run starts in
Fresh ==
    /\ attempt = 0 /\ writes = 0 /\ exitCode = -1 /\ errors = 0 /\ stages = {}
    /\ osmData = [elements |-> <<>>] /\ nodes = <<>> /\ adj = EmptyAdj /\ busStops = <<>>
    /\ graphWaypoints = <<>> /\ pairIdx = 0 /\ fullNodePath = <<>> /\ streetLabels = <<>>
    /\ gameRoute = <<>> /\ gameStops = <<>> /\ cleanRoute = <<>> /\ cleanLabels = <<>>
    /\ cleanPass = FALSE /\ finalRoute = <<>> /\ simplifiedStreetLabels = <<>>
    /\ matchedStops = <<>> /\ junctions = <<>> /\ sideRoads = <<>>

FreshAgain ==
    /\ attempt' = 0 /\ writes' = 0 /\ exitCode' = -1 /\ errors' = 0 /\ stages' = {}
    /\ osmData' = [elements |-> <<>>] /\ nodes' = <<>> /\ adj' = EmptyAdj /\ busStops' = <<>>
    /\ graphWaypoints' = <<>> /\ pairIdx' = 0 /\ fullNodePath' = <<>> /\ streetLabels' = <<>>
    /\ gameRoute' = <<>> /\ gameStops' = <<>> /\ cleanRoute' = <<>> /\ cleanLabels' = <<>>
    /\ cleanPass' = FALSE /\ finalRoute' = <<>> /\ simplifiedStreetLabels' = <<>>
    /\ matchedStops' = <<>> /\ junctions' = <<>> /\ sideRoads' = <<>>

Init ==
    /\ pc = "start" /\ runNo = 1 /\ clock = 0
    /\ provider \in Datasets
    /\ waypoints \in WaypointLists
    /\ cacheFile \in {NoFile, FileOf(provider)}
    /\ outputFile = NoFile /\ prevOutput = NoFile
    /\ traffic = <<>> /\ game = [phase |-> "off"]
    /\ Fresh

\* getOsmData: the cache file exists
GetCached ==
    /\ pc = "start" /\ cacheFile.exists
    /\ osmData' = cacheFile.data
    /\ pc' = "graph" /\ stages' = stages \cup {"fetch"}
    /\ UNCHANGED <<env, ctl, nodes, adj, busStops, graphWaypoints, pairIdx, fullNodePath,
                   streetLabels, geom, out>>

\* getOsmData: no cache file, so fetchOverpass starts its first attempt
BeginFetch ==
    /\ pc = "start" /\ ~cacheFile.exists
    /\ pc' = "fetch" /\ attempt' = 1
    /\ UNCHANGED <<stages, env, runNo, writes, exitCode, errors, graph, geom, out>>

\* a faulty variant: the data is returned and the cache file is not written
FetchOkNoCache ==
    /\ pc = "fetch"
    /\ osmData' = provider
    /\ pc' = "graph" /\ stages' = stages \cup {"fetch"} /\ attempt' = 0
    /\ UNCHANGED <<env, runNo, writes, exitCode, errors, nodes, adj, busStops,
                   graphWaypoints, pairIdx, fullNodePath, streetLabels, geom, out>>

\* an attempt answered 200 and its body is the JSON of a dataset: the data is
\* cached and returned
FetchOk ==
    /\ pc = "fetch"
    /\ osmData' = provider /\ cacheFile' = FileOf(provider)
    /\ pc' = "graph" /\ stages' = stages \cup {"fetch"} /\ attempt' = 0
    /\ UNCHANGED <<clock, provider, waypoints, outputFile, prevOutput, traffic, game, runNo, writes,
                   exitCode, errors, nodes, adj, busStops, graphWaypoints, pairIdx,
                   fullNodePath, streetLabels, geom, out>>

\* a faulty variant: a busy answer is retried without counting the attempts left
FetchBusyForever ==
    /\ pc = "fetch"
    /\ pc' = "fetch" /\ attempt' = attempt + 1
    /\ UNCHANGED <<stages, env, runNo, writes, exitCode, errors, graph, geom, out>>

\* an attempt answered 429 or 504: wait and go on; after the last attempt the loop
\* ends, fetchOverpass returns undefined and data.elements throws
FetchBusy ==
    /\ pc = "fetch"
    /\ IF attempt < RETRIES
       THEN pc' = "fetch" /\ attempt' = attempt + 1 /\ exitCode' = exitCode
       ELSE pc' = "exit" /\ attempt' = attempt /\ exitCode' = 1
    /\ UNCHANGED <<stages, env, runNo, writes, errors, graph, geom, out>>

\* an attempt answered another error status, or fetch threw: retried, and thrown
\* on from the last attempt
FetchFail ==
    /\ pc = "fetch"
    /\ IF attempt < RETRIES
       THEN pc' = "fetch" /\ attempt' = attempt + 1 /\ exitCode' = exitCode
       ELSE pc' = "exit" /\ attempt' = attempt /\ exitCode' = 1
    /\ UNCHANGED <<stages, env, runNo, writes, errors, graph, geom, out>>

\* an attempt answered 200 and its body is not JSON: the promise of res.json(),
\* which the loop returns without awaiting it, rejects outside the try of the
\* loop; no attempt follows, nothing is cached, and the catch of main exits
FetchBadBody ==
    /\ pc = "fetch"
    /\ pc' = "exit" /\ exitCode' = 1
    /\ UNCHANGED <<stages, env, runNo, attempt, writes, errors, graph, geom, out>>

BuildGraph ==
    /\ pc = "graph"
    /\ LET g == buildGraph(osmData) IN
        nodes' = g.nodes /\ adj' = g.adj /\ busStops' = g.busStops
    /\ pc' = "waypoints" /\ stages' = stages \cup {"graph"}
    /\ UNCHANGED <<env, ctl, osmData, graphWaypoints, pairIdx, fullNodePath, streetLabels,
                   geom, out>>

\* buildRoute: each waypoint with its nearest connected node
MapWaypoints ==
    /\ pc = "waypoints"
    /\ graphWaypoints' =
           [k \in 1..Len(waypoints) |->
               [lat |-> waypoints[k].lat, name |-> waypoints[k].name,
                nodeId |-> findNearestNode(nodes, adj, waypoints[k].lat)]]
    /\ pairIdx' = 0 /\ fullNodePath' = <<>> /\ streetLabels' = <<>>
    /\ pc' = "route"
    /\ UNCHANGED <<stages, env, ctl, osmData, nodes, adj, busStops, geom, out>>

\* the waypoints of pair i (0-based), the last pair wrapping around
PairFrom(gw, i) == gw[i + 1]
PairTo(gw, i) == gw[((i + 1) % Len(gw)) + 1]
PairPath(a, gw, i) == dijkstra(a, PairFrom(gw, i).nodeId, PairTo(gw, i).nodeId)

\* a faulty variant: a pair without a path throws the route so far away
RouteAfterCleared(full, path) == IF path = NoPath THEN <<>> ELSE AppendNodes(full, path)

\* what one iteration of buildRoute's loop leaves of the route, the labels and the
\* error count
RouteAfter(full, path) == IF path = NoPath THEN full ELSE AppendNodes(full, path)

LabelsAfter(labels, full, path, a, from) ==
    IF path = NoPath THEN labels ELSE AppendLabels(labels, full, path, a, from)

ErrorsAfter(n, path) == IF path = NoPath THEN n + 1 ELSE n

RoutePair ==
    /\ pc = "route" /\ pairIdx < Len(graphWaypoints)
    /\ LET path == PairPath(adj, graphWaypoints, pairIdx) IN
        /\ fullNodePath' = RouteAfter(fullNodePath, path)
        /\ streetLabels' = LabelsAfter(streetLabels, fullNodePath, path, adj,
                                       PairFrom(graphWaypoints, pairIdx))
        /\ errors' = ErrorsAfter(errors, path)
    /\ pairIdx' = pairIdx + 1
    /\ UNCHANGED <<pc, stages, env, runNo, attempt, writes, exitCode, osmData, nodes, adj,
                   busStops, graphWaypoints, geom, out>>

\* a faulty variant: the check lets a route of three nodes through
TooFewPointsLax(full) == Len(full) < 3

\* if (routeLatLng.length < 10) process.exit(1)
TooFewPoints(full) == Len(full) < MIN_ROUTE_POINTS

RouteTooShort ==
    /\ pc = "route" /\ pairIdx = Len(graphWaypoints)
    /\ TooFewPoints(fullNodePath)
    /\ pc' = "exit" /\ exitCode' = 1 /\ stages' = stages \cup {"route"}
    /\ UNCHANGED <<env, runNo, attempt, writes, errors, graph, geom, out>>

RouteLongEnough ==
    /\ pc = "route" /\ pairIdx = Len(graphWaypoints)
    /\ ~TooFewPoints(fullNodePath)
    /\ pc' = "project" /\ stages' = stages \cup {"route", "check"}
    /\ UNCHANGED <<env, ctl, graph, geom, out>>

\* the latitudes of the routed nodes, and their range
RouteLat == [k \in 1..Len(fullNodePath) |-> nodes[fullNodePath[k]]]
Box == <<SeqMin(RouteLat), SeqMax(RouteLat)>>

Project ==
    /\ pc = "project"
    /\ gameRoute' = GameRoute(RouteLat)
    /\ gameStops' = GameStops(RouteLat, busStops)
    /\ cleanRoute' = GameRoute(RouteLat) /\ cleanLabels' = streetLabels /\ cleanPass' = TRUE
    /\ pc' = "clean" /\ stages' = stages \cup {"project"}
    /\ UNCHANGED <<env, ctl, graph, finalRoute, simplifiedStreetLabels, out>>

\* one pass of the backtrack-removal loop
CleanPass ==
    /\ pc = "clean" /\ cleanPass
    /\ cleanPass' = (ToRemove(cleanRoute) # {})
    /\ cleanRoute' = FilterOut(cleanRoute, ToRemove(cleanRoute), 1)
    /\ cleanLabels' = FilterOut(cleanLabels, ToRemove(cleanRoute), 1)
    /\ UNCHANGED <<pc, stages, env, ctl, graph, gameRoute, gameStops, finalRoute,
                   simplifiedStreetLabels, out>>

\* the loop has ended: consecutive duplicates are collapsed
CollapseDup ==
    /\ pc = "clean" /\ ~cleanPass
    /\ cleanRoute' = Collapse(cleanRoute, cleanRoute)
    /\ cleanLabels' = Collapse(cleanLabels, cleanRoute)
    /\ pc' = "resample" /\ stages' = stages \cup {"clean"}
    /\ UNCHANGED <<env, ctl, graph, gameRoute, gameStops, cleanPass, finalRoute,
                   simplifiedStreetLabels, out>>

ResampleRoute ==
    /\ pc = "resample"
    /\ finalRoute' = Resample(cleanRoute)
    /\ simplifiedStreetLabels' = MapLabels(Resample(cleanRoute), cleanRoute, cleanLabels)
    /\ pc' = "close" /\ stages' = stages \cup {"resample"}
    /\ UNCHANGED <<env, ctl, graph, gameRoute, gameStops, cleanRoute, cleanLabels,
                   cleanPass, out>>

CloseLoop ==
    /\ pc = "close"
    /\ finalRoute' = closeLoop(finalRoute)
    /\ simplifiedStreetLabels' = Append(simplifiedStreetLabels, simplifiedStreetLabels[1])
    /\ pc' = "match" /\ stages' = stages \cup {"close"}
    /\ UNCHANGED <<env, ctl, graph, gameRoute, gameStops, cleanRoute, cleanLabels,
                   cleanPass, out>>

\* whether the synthesis branch is taken
TooFewStops(stops) == Len(stops) < MIN_STOPS

MatchStops ==
    /\ pc = "match"
    /\ LET m == assignStreetNames(
                    matchBusStops(finalRoute, gameStops, STOP_MATCH_RADIUS),
                    simplifiedStreetLabels)
       IN /\ matchedStops' = m
          /\ pc' = IF TooFewStops(m) THEN "synth" ELSE "names"
    /\ stages' = stages \cup {"match"}
    /\ UNCHANGED <<env, ctl, graph, geom, junctions, sideRoads>>

\* the stride is 0 and the loop has a point to visit: it never ends
SynthDiverges(route) == Interval(Len(route)) = 0 /\ Len(route) - 1 > 0

SynthHang ==
    /\ pc = "synth" /\ SynthDiverges(finalRoute)
    /\ pc' = "hung"
    /\ UNCHANGED <<stages, env, ctl, graph, geom, out>>

\* nothing matched and nothing synthesized: spaced is [undefined], and
\* deduplicateStopNames throws on its name
SynthNothing ==
    /\ pc = "synth" /\ ~SynthDiverges(finalRoute)
    /\ matchedStops = <<>> /\ Len(finalRoute) <= 1
    /\ pc' = "exit" /\ exitCode' = 1
    /\ UNCHANGED <<stages, env, runNo, attempt, writes, errors, graph, geom, out>>

SynthStops ==
    /\ pc = "synth" /\ ~SynthDiverges(finalRoute)
    /\ ~(matchedStops = <<>> /\ Len(finalRoute) <= 1)
    /\ matchedStops' = Synthesize(finalRoute, matchedStops, simplifiedStreetLabels)
    /\ pc' = "names"
    /\ UNCHANGED <<stages, env, ctl, graph, geom, junctions, sideRoads>>

NameStops ==
    /\ pc = "names"
    /\ matchedStops' = deduplicateStopNames(matchedStops)
    /\ pc' = "stubs" /\ stages' = stages \cup {"stops"}
    /\ UNCHANGED <<env, ctl, graph, geom, junctions, sideRoads>>

DetectStubs ==
    /\ pc = "stubs"
    /\ LET d == detectJunctionsAndStubs(nodes, adj, fullNodePath, MANUAL_ROUNDABOUTS, Box) IN
        junctions' = d.junctions /\ sideRoads' = d.sideRoads
    /\ pc' = "write" /\ stages' = stages \cup {"stubs"}
    /\ UNCHANGED <<env, ctl, graph, geom, matchedStops>>

\* writeRouteData(finalRoute, matchedStops, junctions, sideRoads)
writeRouteData ==
    /\ pc = "write"
    /\ outputFile' = FileOf(Output(finalRoute, matchedStops, junctions, sideRoads, clock))
    /\ writes' = writes + 1
    /\ pc' = "validate" /\ stages' = stages \cup {"write"}
    /\ UNCHANGED <<clock, provider, waypoints, cacheFile, prevOutput, traffic, game, runNo, attempt,
                   exitCode, errors, graph, geom, out>>

\* the gap report; main returns and the process exits with 0
Validate ==
    /\ pc = "validate"
    /\ pc' = "exit" /\ exitCode' = 0
    /\ UNCHANGED <<stages, env, runNo, attempt, writes, errors, graph, geom, out>>

\* the script is run again, later, with the files the run before left
RunAgain ==
    /\ pc = "exit" /\ runNo < MaxRuns
    /\ pc' = "start" /\ runNo' = runNo + 1 /\ clock' = clock + 1
    /\ prevOutput' = outputFile
    /\ FreshAgain
    /\ UNCHANGED <<provider, waypoints, cacheFile, outputFile, traffic, game>>

Next ==
    \/ GetCached \/ BeginFetch \/ FetchOk \/ FetchBusy \/ FetchFail \/ FetchBadBody
    \/ BuildGraph \/ MapWaypoints \/ RoutePair \/ RouteTooShort \/ RouteLongEnough
    \/ Project \/ CleanPass \/ CollapseDup \/ ResampleRoute \/ CloseLoop
    \/ MatchStops \/ SynthHang \/ SynthNothing \/ SynthStops \/ NameStops
    \/ DetectStubs \/ writeRouteData \/ Validate \/ RunAgain

Spec == Init /\ [][Next]_vars

\* ------------------------------------------------------------ stage specifications

\* Steps 5a to 7 of main are functions of the projected polyline and the projected
\* stops alone.  The stage specifications start main at one of these steps, with
\* polylines in the plane, and run the same actions from there.

MaxTail == 3
MaxSegs == 4

\* the label of the k-th route point: the street changes every third point
LabelsFor(route) ==
    [k \in 1..Len(route) |->
        IF (k \div 3) % 2 = 0 THEN <<"The", "Mall">> ELSE <<"Whitehall">>]

\* main has reached a step with the steps in done behind it; what those steps
\* leave behind and the later ones never read is left empty
StageStart(done) ==
    /\ runNo = 1 /\ clock = 0 /\ provider = [elements |-> <<>>] /\ waypoints = <<>>
    /\ cacheFile = NoFile /\ outputFile = NoFile /\ prevOutput = NoFile
    /\ traffic = <<>> /\ game = [phase |-> "off"]
    /\ attempt = 0 /\ writes = 0 /\ exitCode = -1 /\ errors = 0 /\ stages = done
    /\ osmData = [elements |-> <<>>] /\ nodes = <<>> /\ adj = EmptyAdj /\ busStops = <<>>
    /\ graphWaypoints = <<>> /\ pairIdx = 0 /\ fullNodePath = <<>> /\ streetLabels = <<>>
    /\ finalRoute = <<>> /\ simplifiedStreetLabels = <<>>
    /\ matchedStops = <<>> /\ junctions = <<>> /\ sideRoads = <<>>

\* A projected route: seven points of a street running east along z = -100, a few
\* points chosen near its end, and a street running south to z = +100.  Its box
\* is 500 wide and centred, as projectToGameCoords leaves it.
TailGrid ==
    {<<2350, -1000>>, <<2400, -1000>>, <<2450, -1000>>, <<2500, -1000>>,
     <<2500, -996>>, <<2496, -900>>, <<2500, -900>>, <<2400, -900>>}

RawRoutes ==
    LET LeadIn == <<<<-2500, -1000>>, <<-1700, -1000>>, <<-900, -1000>>, <<-100, -1000>>,
                    <<700, -1000>>, <<1500, -1000>>, <<2300, -1000>>>>
        LeadOut == <<<<2496, -500>>, <<2500, 1000>>>>
    IN {LeadIn \o tail \o LeadOut : tail \in UNION {[1..n -> TailGrid] : n \in 1..MaxTail}}

InitClean ==
    /\ pc = "clean"
    /\ StageStart({"fetch", "graph", "route", "check", "project"})
    /\ gameRoute \in RawRoutes
    /\ gameStops = <<>>
    /\ cleanRoute = gameRoute /\ cleanLabels = LabelsFor(gameRoute) /\ cleanPass = TRUE

NextClean == CleanPass \/ CollapseDup

SpecClean == InitClean /\ [][NextClean]_vars

\* the script runs on: a pass of the loop, and the collapse after it, is taken
\* whenever it can be
SpecCleanFair == SpecClean /\ WF_vars(NextClean)

\* A cleaned route: a walk from Origin along segments of whole length (a street
\* east, north, west or south, a short and a long street east, a street along
\* 5-12-13), no interior point turning back and no two consecutive points within 0.5.
Origin == <<-2500, -2500>>

Segments ==
    {<<1000, 0>>, <<0, 1000>>, <<-1000, 0>>, <<0, -1000>>, <<200, 0>>, <<2000, 0>>,
     <<500, 1200>>}

RECURSIVE Walk(_, _, _)
Walk(p, segs, k) ==
    IF k > Len(segs) THEN <<p>>
    ELSE <<p>> \o Walk(<<p[1] + segs[k][1], p[2] + segs[k][2]>>, segs, k + 1)

\* the walks within the 500 x 500 box of the projection that step 5a leaves
\* unchanged
CleanedRoutes ==
    {r \in {Walk(Origin, segs, 1) : segs \in UNION {[1..n -> Segments] : n \in 0..MaxSegs}} :
        /\ \A k \in 1..Len(r) :
               /\ Abs(r[k][1]) * 2 <= TARGET_SPAN * UNIT
               /\ Abs(r[k][2]) * 2 <= TARGET_SPAN * UNIT
        /\ ToRemove(r) = {} /\ Collapse(r, r) = r}

GameStop(name, x, z) == [name |-> name, gamePos |-> <<x, z>>]

\* seven stops along the first 480 units east of Origin, 80 apart and 10 off the road
ManyStops ==
    <<GameStop(<<"Abbey">>, -2500, -2400), GameStop(<<"Palace">>, -1700, -2400),
      GameStop(<<"Abbey">>, -900, -2400), GameStop(<<>>, -100, -2400),
      GameStop(<<"Cathedral">>, 700, -2400), GameStop(<<"Bridge">>, 1500, -2400),
      GameStop(<<"Stop", "K">>, 2300, -2400)>>

\* stops crowding a few route points, named and unnamed, and one far from any road
FewStops ==
    <<GameStop(<<"Palace">>, -1950, -2480), GameStop(<<>>, -2250, -2450),
      GameStop(<<"Abbey">>, -2000, -2420), GameStop(<<"Bridge">>, 2500, 2500),
      GameStop(<<"Cathedral">>, -2500, -1500)>>

\* stops crowding the first 250 units east of Origin: two unnamed ones at
\* neighbouring route points, the second the closer; three named ones, each closer
\* than the one before; and one at the match radius exactly
CrowdStops ==
    <<GameStop(<<>>, -2500, -2300), GameStop(<<>>, -2250, -2450),
      GameStop(<<"Abbey">>, -1250, -2400), GameStop(<<"Palace">>, -1000, -2450),
      GameStop(<<"Cathedral">>, -500, -2480), GameStop(<<"Bridge">>, -250, -2200)>>

InitResample ==
    /\ pc = "resample"
    /\ StageStart({"fetch", "graph", "route", "check", "project", "clean"})
    /\ cleanRoute \in CleanedRoutes
    /\ gameStops \in {<<>>, ManyStops, FewStops, CrowdStops}
    /\ gameRoute = cleanRoute /\ cleanLabels = LabelsFor(cleanRoute) /\ cleanPass = FALSE

SpecResample ==
    InitResample
    /\ [][\/ ResampleRoute \/ CloseLoop \/ MatchStops
          \/ SynthHang \/ SynthNothing \/ SynthStops \/ NameStops]_vars

\* buildRoute's loop over the waypoint pairs reads the adjacency structure and the
\* waypoints' nodes alone.  SpecRoute starts main there, with directed graphs on
\* the nodes 1..MaxNode whose edges are any of nine: edges of weight 0, two
\* edges from 1 to 3, a self-loop, a cycle, and routes of more hops and less
\* weight than the direct edge.
MaxNode == 4

Graphs ==
    LET E(from, to, dist, name) == [from |-> from, to |-> to, dist |-> dist, name |-> name]
        pool == <<E(1, 2, 1, <<"Abbey", "Road">>), E(1, 3, 5, <<"Broad", "Street">>),
                  E(1, 3, 4, <<"Canal", "Street">>), E(2, 3, 2, <<"Dean", "Street">>),
                  E(2, 4, 0, <<>>), E(4, 3, 0, <<"East", "Lane">>),
                  E(3, 1, 1, <<"Fleet", "Street">>), E(2, 2, 1, <<"Grove">>),
                  E(3, 4, 2, <<"High", "Street">>)>>
        graphOf(chosen) ==
            LET es == Pick(pool, chosen)
                firsts == FilterOut(es, {k \in 1..Len(es) :
                                            \E j \in 1..(k - 1) : es[j].from = es[k].from}, 1)
                from(u) == FilterOut(es, {k \in 1..Len(es) : es[k].from # u}, 1)
            IN [keys |-> [k \in 1..Len(firsts) |-> firsts[k].from],
                edges |-> [u \in {es[k].from : k \in 1..Len(es)} |->
                              [k \in 1..Len(from(u)) |->
                                  [to |-> from(u)[k].to,
                                   dist |-> IF from(u)[k].dist = 0 THEN <<>>
                                            ELSE <<<<from(u)[k].dist>>>>,
                                   name |-> from(u)[k].name]]]]
    IN {graphOf(chosen) : chosen \in SUBSET (1..Len(pool))}

InitRoute ==
    /\ pc = "route" /\ stages = {"fetch", "graph"}
    /\ runNo = 1 /\ clock = 0 /\ provider = [elements |-> <<>>] /\ waypoints = <<>>
    /\ cacheFile = NoFile /\ outputFile = NoFile /\ prevOutput = NoFile
    /\ traffic = <<>> /\ game = [phase |-> "off"]
    /\ attempt = 0 /\ writes = 0 /\ exitCode = -1 /\ errors = 0
    /\ osmData = [elements |-> <<>>] /\ nodes = <<>> /\ busStops = <<>>
    /\ adj \in Graphs
    /\ \E s \in 1..MaxNode, t \in 1..MaxNode :
           graphWaypoints =
               <<[lat |-> 0, name |-> [base |-> <<"Whitehall">>, paren |-> "south"], nodeId |-> s],
                 [lat |-> 0, name |-> [base |-> <<"Strand">>, paren |-> ""], nodeId |-> t]>>
    /\ pairIdx = 0 /\ fullNodePath = <<>> /\ streetLabels = <<>>
    /\ gameRoute = <<>> /\ gameStops = <<>> /\ cleanRoute = <<>> /\ cleanLabels = <<>>
    /\ cleanPass = FALSE /\ finalRoute = <<>> /\ simplifiedStreetLabels = <<>>
    /\ matchedStops = <<>> /\ junctions = <<>> /\ sideRoads = <<>>

SpecRoute == InitRoute /\ [][RoutePair \/ RouteTooShort]_vars

\* ---- the side-road loop in the plane.  pos[id] is <<fromGX, fromGZ>>, the
\* projected position of a node before it is rounded, in hundredths of a game
\* unit; a stub holds x and z rounded to tenths.  The script computes every
\* position with rounding errors; two nodes of one longitude (one latitude) have
\* the same double for x (for z).

\* the loop over fullNodePath of detectJunctionsAndStubs, from position ri on
RECURSIVE PlaneStubs(_, _, _, _, _, _)
PlaneStubs(stubs, ri, pos, a, path, juncs) ==
    LET onRoute == {path[m] : m \in 1..Len(path)}
        cent == 10 * UNIT
        gapSq(p, x, z) == Sq(p[1] - 10 * x) + Sq(p[2] - 10 * z)
        \* Math.atan(2^-i) for i = 0..21, in 1/100000000 radian
        atanTable == <<78539816, 46364761, 24497866, 12435499, 6241881, 3123983,
                       1562373, 781234, 390623, 195312, 97656, 48828, 24414, 12207,
                       6104, 3052, 1526, 763, 381, 191, 95, 48>>
        pow2(i) == 2 ^ i
        \* the angle of the vector <<x, y>>, x >= 0, by rotations of atan(2^-i)
        RECURSIVE cordic(_, _, _, _)
        cordic(x, y, i, acc) ==
            IF i > 21 \/ y = 0 THEN acc
            ELSE IF y > 0
            THEN cordic(x + (y \div pow2(i)), y - (x \div pow2(i)), i + 1,
                        acc + atanTable[i + 1])
            ELSE cordic(x + ((-y) \div pow2(i)), y + (x \div pow2(i)), i + 1,
                        acc - atanTable[i + 1])
        \* Math.round(Math.atan2(sdx, sdz) * 1000): the angle from +z towards +x.
        \* The rotations give it within 1/1000 of a thousandth
        angle(sdx, sdz) ==
            LET big == IF Abs(sdx) > Abs(sdz) THEN Abs(sdx) ELSE Abs(sdz)
                scale == pow2(24) \div big
                half == 157079633
                acute == IF sdx = 0 THEN 0
                         ELSE IF sdz = 0 THEN half
                         ELSE IF Abs(sdx) = Abs(sdz) THEN atanTable[1]
                         ELSE cordic(Abs(sdz) * scale, Abs(sdx) * scale, 0, 0)
                turn == IF sdz >= 0 THEN acute ELSE 2 * half - acute
                milli == 100000
            IN IF FloatCmp(Abs((turn % milli) - (milli \div 2)), 1000, FALSE) < 0
               THEN CHOOSE r \in {} : TRUE
               ELSE IF sdx < 0 THEN -((turn + milli \div 2) \div milli)
               ELSE (turn + milli \div 2) \div milli
        \* 20 + Math.round(Math.abs(fromGX * 7 + fromGZ * 13) % 15)
        length(from) ==
            LET v == Abs(7 * from[1] + 13 * from[2]) IN
            STUB_BASE_LEN
                + (IF v > 0 /\ v % (STUB_LEN_RANGE * cent) = 0 THEN CHOOSE r \in {} : TRUE
                   ELSE MathRound(v % (STUB_LEN_RANGE * cent), cent))
        RECURSIVE ofNode(_, _, _, _)
        ofNode(acc, edges, k, from) ==
            IF k > Len(edges) THEN acc
            ELSE LET to == edges[k].to
                     next == ofNode(acc, edges, k + 1, from)
                 IN IF to \in onRoute \/ to \notin DOMAIN pos THEN next
                    ELSE IF FloatCmp(Sq(pos[to][1] - from[1]) + Sq(pos[to][2] - from[2]),
                                     Sq(MIN_SIDE_LEN * cent), pos[to] = from) < 0 THEN next
                    ELSE IF \/ \E e \in 1..Len(acc) :
                                   gapSq(from, acc[e].x, acc[e].z) < Sq(MIN_STUB_SPACING * cent)
                            \/ \E e \in 1..Len(acc) :
                                   FloatCmp(gapSq(from, acc[e].x, acc[e].z),
                                            Sq(MIN_STUB_SPACING * cent), FALSE) < 0
                         THEN next
                    ELSE IF \/ \E j \in 1..Len(juncs) :
                                   gapSq(from, juncs[j].x, juncs[j].z)
                                       < Sq(10 * juncs[j].radius + ROUNDABOUT_MARGIN * cent)
                            \/ \E j \in 1..Len(juncs) :
                                   FloatCmp(gapSq(from, juncs[j].x, juncs[j].z),
                                            Sq(10 * juncs[j].radius + ROUNDABOUT_MARGIN * cent),
                                            FALSE) < 0
                         THEN next
                    ELSE ofNode(
                             Append(acc,
                                 [x |-> MathRound(from[1], 10), z |-> MathRound(from[2], 10),
                                  angle |-> angle(pos[to][1] - from[1], pos[to][2] - from[2]),
                                  length |-> length(from)]),
                             edges, k + 1, from)
    IN IF ri > Len(path) THEN stubs
       ELSE LET id == path[ri] IN
            IF ~AdjHas(a, id) \/ id \notin DOMAIN pos
            THEN PlaneStubs(stubs, ri + 1, pos, a, path, juncs)
            ELSE PlaneStubs(ofNode(stubs, a.edges[id], 1, pos[id]),
                            ri + 1, pos, a, path, juncs)

\* step 8 of main on a route of three nodes across the plane; node 10 + i is a
\* node off the route that node i may have a way to, 3 or 1 game units away
InitStubs ==
    /\ pc = "stubs"
    /\ runNo = 1 /\ clock = 0 /\ provider = [elements |-> <<>>] /\ waypoints = <<>>
    /\ cacheFile = NoFile /\ outputFile = NoFile /\ prevOutput = NoFile
    /\ traffic = <<>> /\ game = [phase |-> "off"]
    /\ attempt = 0 /\ writes = 0 /\ exitCode = -1 /\ errors = 0
    /\ stages = {"fetch", "graph", "route", "check", "project", "clean", "resample",
                 "close", "match", "name"}
    /\ osmData = [elements |-> <<>>] /\ busStops = <<>> /\ graphWaypoints = <<>>
    /\ pairIdx = 0 /\ streetLabels = <<>>
    /\ gameRoute = <<>> /\ gameStops = <<>> /\ cleanRoute = <<>> /\ cleanLabels = <<>>
    /\ cleanPass = FALSE /\ finalRoute = <<>> /\ simplifiedStreetLabels = <<>>
    /\ matchedStops = <<>> /\ sideRoads = <<>>
    /\ traffic = <<>> /\ game = [phase |-> "off"]
    /\ junctions \in {<<>>, <<[x |-> 300, z |-> 0, radius |-> 30, name |-> <<"Circus">>,
                               arms |-> JUNCTION_ARMS]>>}
    /\ fullNodePath \in {<<1, 2, 3>>, <<1, 2, 1, 3>>, <<3, 2>>}
    /\ \E p2 \in {<<1064, 1058>>, <<1060, 1060>>, <<1510, 0>>, <<1496, 4>>, <<900, 0>>},
          p3 \in {<<2128, 2116>>, <<3020, 0>>, <<2566, 1058>>, <<1504, 1496>>},
          side \in [1..3 -> {<<>>, <<<<0, 300>>>>, <<<<100, 0>>>>, <<<<-300, 0>>, <<0, -300>>>>}] :
          LET at == <<<<0, 0>>, p2, p3>>
              ends == {<<i, k>> : i \in 1..3, k \in 1..2}
              RECURSIVE ways(_, _, _)
              ways(a, i, k) ==
                  IF i > 3 THEN a
                  ELSE IF k > Len(side[i])
                  THEN ways(IF i < 3 THEN addEdge(addEdge(a, i, i + 1, <<<<1>>>>, <<"High", "Street">>),
                                                  i + 1, i, <<<<1>>>>, <<"High", "Street">>)
                            ELSE a, i + 1, 1)
                  ELSE ways(addEdge(a, i, 10 * k + i, <<<<1>>>>, <<>>), i, k + 1)
          IN /\ adj = ways(EmptyAdj, 1, 1)
             /\ nodes = [id \in (1..3) \cup {10 * e[2] + e[1] : e \in {d \in ends : d[2] <= Len(side[d[1]])}} |->
                            IF id <= 3 THEN at[id]
                            ELSE <<at[id % 10][1] + side[id % 10][id \div 10][1],
                                   at[id % 10][2] + side[id % 10][id \div 10][2]>>]

\* step 8 of main, nodes holding projected positions
DetectStubsPlane ==
    /\ pc = "stubs" /\ "name" \in stages
    /\ sideRoads' = LET stubs == PlaneStubs(<<>>, 1, nodes, adj, fullNodePath, junctions)
                     IN SubSeq(stubs, 1, Min2(Len(stubs), MAX_STUBS))
    /\ pc' = "write" /\ stages' = stages \cup {"stubs"}
    /\ UNCHANGED <<env, ctl, graph, geom, matchedStops, junctions>>

SpecStubs == InitStubs /\ [][DetectStubsPlane]_vars

\* ---- the game's traffic.  A vehicle stands at the fraction segT of segment seg
\* of ROUTE and drives at speed along dir.  segT is kept in 1/4000000, a speed in
\* 1/8000 of a game unit per second, the length of a segment in tenths, and dt in
\* twentieths of a second: every frame below leaves values of these grids.  What
\* the positions of the other vehicles and of the bus decide is an input: how
\* far a vehicle is slowed, whether the bus hits an obstacle, which vehicle it hits.
MaxFrames == 3

\* useFrame of Traffic for the vehicle tv; route holds the lengths of the
\* segments of ROUTE, curSpd is baseSpeed after the two slow-down scans.  A
\* vehicle that is moved to the very end of its segment (segT 1 forward, 0
\* backward, as real numbers) is there or beyond it by the rounding errors of
\* segT and advance: the loops have no value then, unless advance is 0
TrafficUseFrame(tv, route, dtN, curSpd) ==
    LET segLen == IF route[tv.seg + 1] < 1 THEN 1 ELSE route[tv.seg + 1]
        speed == tv.speed + ((curSpd - tv.speed) * 3 * dtN) \div 20
        advance == (speed * dtN * 250) \div segLen
        RECURSIVE forward(_, _)
        forward(seg, segT) ==
            IF FloatCmp(segT, 4000000, advance = 0) >= 0
            THEN IF seg + 1 >= Len(route) THEN forward(0, 0)
                 ELSE forward(seg + 1, segT - 4000000)
            ELSE [seg |-> seg, segT |-> segT]
        RECURSIVE backward(_, _)
        backward(seg, segT) ==
            IF FloatCmp(segT, 0, advance = 0) < 0
            THEN IF seg - 1 < 0 THEN backward(Len(route) - 1, 4000000)
                 ELSE backward(seg - 1, segT + 4000000)
            ELSE [seg |-> seg, segT |-> segT]
        at == IF tv.dir = 1 THEN forward(tv.seg, tv.segT + advance)
              ELSE backward(tv.seg, tv.segT - advance)
    IN [tv EXCEPT !.speed = speed, !.seg = at.seg, !.segT = at.segT]

\* useFrame of GameController, as far as the vehicles and crashed go: the
\* obstacle test, then the traffic test and the push of the vehicle that is hit
\* (hitIdx, 0 for none)
ControllerUseFrame(g, tvs, obsHit, hitIdx) ==
    IF g.phase # "playing" THEN [game |-> g, traffic |-> tvs]
    ELSE LET crashed == IF obsHit /\ ~g.crashed THEN TRUE
                        ELSE IF g.crashed /\ ~obsHit THEN FALSE ELSE g.crashed
         IN IF ~crashed /\ hitIdx > 0
            THEN [game |-> [g EXCEPT !.crashed = TRUE],
                  traffic |-> [tvs EXCEPT ![hitIdx].speed = -2 * 8000,
                                          ![hitIdx].segT = @ + tvs[hitIdx].dir * 600000]]
            ELSE [game |-> [g EXCEPT !.crashed = crashed], traffic |-> tvs]

\* a vehicle as Traffic creates it, on a route of three segments; the two
\* useFrame callbacks run in the order in which the components subscribed
InitTraffic ==
    /\ pc = "play" /\ stages = {}
    /\ runNo = 1 /\ clock = 0 /\ provider = [elements |-> <<>>] /\ waypoints = <<>>
    /\ cacheFile = NoFile /\ outputFile = NoFile /\ prevOutput = NoFile
    /\ attempt = 0 /\ writes = 0 /\ exitCode = -1 /\ errors = 0
    /\ osmData = [elements |-> <<>>] /\ nodes = <<>> /\ adj = EmptyAdj /\ busStops = <<>>
    /\ graphWaypoints = <<>> /\ pairIdx = 0 /\ fullNodePath = <<>> /\ streetLabels = <<>>
    /\ gameRoute = <<>> /\ gameStops = <<>> /\ cleanRoute = <<>> /\ cleanLabels = <<>>
    /\ cleanPass = FALSE /\ finalRoute = <<>> /\ simplifiedStreetLabels = <<>>
    /\ matchedStops = <<>> /\ junctions = <<>> /\ sideRoads = <<>>
    /\ \E seg \in 0..2, segT \in {0, 584000, 2000000, 3600000}, dir \in {1, -1},
          baseSpd \in {8 * 8000, 12 * 8000} :
          traffic = <<[seg |-> seg, segT |-> segT, dir |-> dir,
                       speed |-> baseSpd, baseSpeed |-> baseSpd]>>
    /\ \E first \in {"controller", "traffic"} :
          game = [phase |-> "playing", crashed |-> FALSE, route |-> <<250, 125, 250>>,
                  first |-> first, frame |-> 0]

\* one rendered frame: both callbacks run once, with the same rawDt.  The
\* frames are those that leave values of the grids, and in which no vehicle is
\* moved to the very end of a segment
RenderFrame ==
    /\ pc = "play" /\ game.frame < MaxFrames
    /\ \E dtN \in {1, 2}, slow \in {2 * 8000, 14 * 8000}, obsHit \in BOOLEAN,
          hitIdx \in 0..Len(traffic) :
          LET curSpd(tv) == Min2(tv.baseSpeed, slow)
              onGrid(tv) ==
                  LET speed == tv.speed + ((curSpd(tv) - tv.speed) * 3 * dtN) \div 20
                      segLen == game.route[tv.seg + 1]
                      to == tv.segT + tv.dir * ((speed * dtN * 250) \div segLen)
                  IN /\ ((curSpd(tv) - tv.speed) * 3 * dtN) % 20 = 0
                     /\ (speed * dtN * 250) % segLen = 0
                     /\ \/ to = tv.segT \/ to % 4000000 # 0
                        \/ tv.dir = 1 /\ to < 4000000
                        \/ tv.dir = -1 /\ to > 0
              drive(tvs) == [k \in 1..Len(tvs) |->
                                TrafficUseFrame(tvs[k], game.route, dtN, curSpd(tvs[k]))]
              steer(g, tvs) == ControllerUseFrame(g, tvs, obsHit, hitIdx)
              driven == IF game.first = "controller" THEN steer(game, traffic).traffic
                        ELSE traffic
              after == IF game.first = "controller"
                       THEN [game |-> steer(game, traffic).game, traffic |-> drive(driven)]
                       ELSE steer(game, drive(traffic))
          IN /\ \A k \in 1..Len(traffic) : onGrid(driven[k])
             /\ traffic' = after.traffic
             /\ game' = [after.game EXCEPT !.frame = @ + 1]
    /\ UNCHANGED <<pc, stages, clock, provider, waypoints, cacheFile, outputFile, prevOutput,
                   ctl, graph, geom, out>>

SpecTraffic == InitTraffic /\ [][RenderFrame]_vars

\* ---- the game's stops (App of BusGame3D.jsx).  game holds stateRef.current as
\* phase, the fields of g that the doors read and write, the text of the answer
\* box, and of the React state ui what the panel of a stop shows.  There are
\* three stops, the last being the terminal.  A passenger's walk is the
\* walkState of the figure that carries its paxIndex.  What the position of the
\* bus decides is an input: the stop it is near, and how fast it moves.
MaxPax == 2

\* newPax: a list of passengers, 1..MaxPax from each stop but the last
newPax ==
    LET from(i) ==
            UNION {[1..c -> {[origin |-> i, dest |-> d, on |-> FALSE, done |-> FALSE,
                              walk |-> "idle"] : d \in (i + 1)..2}] : c \in 1..MaxPax}
    IN {p0 \o p1 : p0 \in from(0), p1 \in from(1)}

\* App is mounted: useState of ui and mathInput, g of the effect
InitGame ==
    /\ pc = "play" /\ stages = {}
    /\ runNo = 1 /\ clock = 0 /\ provider = [elements |-> <<>>] /\ waypoints = <<>>
    /\ cacheFile = NoFile /\ outputFile = NoFile /\ prevOutput = NoFile
    /\ attempt = 0 /\ writes = 0 /\ exitCode = -1 /\ errors = 0
    /\ osmData = [elements |-> <<>>] /\ nodes = <<>> /\ adj = EmptyAdj /\ busStops = <<>>
    /\ graphWaypoints = <<>> /\ pairIdx = 0 /\ fullNodePath = <<>> /\ streetLabels = <<>>
    /\ gameRoute = <<>> /\ gameStops = <<>> /\ cleanRoute = <<>> /\ cleanLabels = <<>>
    /\ cleanPass = FALSE /\ finalRoute = <<>> /\ simplifiedStreetLabels = <<>>
    /\ matchedStops = <<>> /\ junctions = <<>> /\ sideRoads = <<>>
    /\ traffic = <<>>
    /\ \E pax \in newPax :
          game = [phase |-> "menu", pax |-> pax, onBus |-> 0, speed |-> 0,
                  nearIdx |-> -1, stoppedIdx |-> -1, mathSolved |-> TRUE, mathPrev |-> 0,
                  mathInput |-> <<>>,
                  ui |-> [phase |-> "menu", onBus |-> 0, bOn |-> 0, bOff |-> 0,
                          mathPrev |-> 0, mathSolved |-> TRUE]]

\* the Start and Play Again buttons
startPlay ==
    /\ pc = "play" /\ game.ui.phase \in {"menu", "complete"}
    /\ \E pax \in newPax :
          game' = [game EXCEPT !.pax = pax, !.speed = 0, !.onBus = 0, !.nearIdx = -1,
                               !.stoppedIdx = -1, !.mathSolved = TRUE, !.mathPrev = 0,
                               !.phase = "playing", !.ui.phase = "playing"]
    /\ UNCHANGED <<pc, stages, clock, provider, waypoints, cacheFile, outputFile, prevOutput,
                   traffic, ctl, graph, geom, out>>

\* one turn of animate: while playing the bus moves and ui is set from g; in
\* every phase the walks advance, and those of the passengers in ended finish
animate ==
    /\ pc = "play" /\ game.phase \in {"menu", "playing", "stopped", "complete"}
    /\ \E near \in -1..2, speed \in {0, 5},
          ended \in SUBSET {k \in 1..Len(game.pax) : game.pax[k].walk # "idle"} :
          LET g == IF game.phase = "playing"
                   THEN [game EXCEPT !.nearIdx = near, !.speed = speed,
                                     !.ui = [phase |-> "playing", onBus |-> game.onBus,
                                             bOn |-> 0, bOff |-> 0,
                                             mathPrev |-> game.mathPrev,
                                             mathSolved |-> game.mathSolved]]
                   ELSE game
              pax == [k \in 1..Len(g.pax) |->
                         IF k \notin ended THEN g.pax[k]
                         ELSE IF g.pax[k].walk = "boarding"
                         THEN [g.pax[k] EXCEPT !.on = TRUE, !.walk = "idle"]
                         ELSE [g.pax[k] EXCEPT !.done = TRUE, !.on = FALSE, !.walk = "idle"]]
          IN game' = [g EXCEPT !.pax = pax,
                               !.onBus = IF ended = {} THEN @
                                         ELSE Cardinality({k \in 1..Len(pax) : pax[k].on})]
    /\ UNCHANGED <<pc, stages, clock, provider, waypoints, cacheFile, outputFile, prevOutput,
                   traffic, ctl, graph, geom, out>>

\* g.door, by the space bar or the button
door ==
    /\ pc = "play"
    /\ LET idx == 1..Len(game.pax)
           finish(pax, stop) ==
               [k \in idx |->
                   IF pax[k].walk = "boarding" /\ pax[k].origin = stop
                   THEN [pax[k] EXCEPT !.on = TRUE, !.walk = "idle"]
                   ELSE IF pax[k].walk = "alighting"
                   THEN [pax[k] EXCEPT !.done = TRUE, !.on = FALSE, !.walk = "idle"]
                   ELSE pax[k]]
           count(pax) == Cardinality({k \in idx : pax[k].on})
       IN IF game.phase = "playing" /\ game.nearIdx >= 0 /\ Abs(game.speed) < 2
          THEN LET ssi == game.nearIdx
                   off == {k \in idx : game.pax[k].on /\ game.pax[k].dest = ssi
                                           /\ ~game.pax[k].done}
                   on == {k \in idx : game.pax[k].origin = ssi /\ ~game.pax[k].on
                                          /\ ~game.pax[k].done}
                   pax == [k \in idx |->
                              IF k \in on THEN [game.pax[k] EXCEPT !.walk = "boarding"]
                              ELSE IF k \in off THEN [game.pax[k] EXCEPT !.walk = "alighting"]
                              ELSE game.pax[k]]
                   bOn == Cardinality(on)
                   bOff == Cardinality(off)
                   g == [game EXCEPT !.speed = 0, !.stoppedIdx = ssi,
                                     !.mathPrev = game.onBus,
                                     !.mathSolved = (bOn = 0 /\ bOff = 0),
                                     !.mathInput = <<>>]
               IN IF ssi = 2
                  THEN game' = [g EXCEPT !.pax = finish(pax, ssi), !.onBus = 0,
                                         !.phase = "complete",
                                         !.ui = [phase |-> "complete", onBus |-> 0,
                                                 bOn |-> bOn, bOff |-> bOff,
                                                 mathPrev |-> 0, mathSolved |-> TRUE]]
                  ELSE game' = [g EXCEPT !.pax = pax, !.onBus = count(pax),
                                         !.phase = "stopped",
                                         !.ui = [phase |-> "stopped", onBus |-> count(pax),
                                                 bOn |-> bOn, bOff |-> bOff,
                                                 mathPrev |-> game.onBus,
                                                 mathSolved |-> (bOn = 0 /\ bOff = 0)]]
          ELSE IF game.phase = "stopped" /\ game.mathSolved
          THEN LET pax == IF game.stoppedIdx >= 0 THEN finish(game.pax, game.stoppedIdx)
                          ELSE game.pax
               IN game' = [game EXCEPT !.pax = pax,
                                       !.onBus = IF game.stoppedIdx >= 0 THEN count(pax) ELSE @,
                                       !.stoppedIdx = -1, !.phase = "playing",
                                       !.ui.phase = "playing"]
          ELSE game' = game
    /\ UNCHANGED <<pc, stages, clock, provider, waypoints, cacheFile, outputFile, prevOutput,
                   traffic, ctl, graph, geom, out>>

\* onChange of the answer box, which the panel of a stop shows until solved;
\* the box is an input of type number, whose value is the text of a number with
\* or without sign, fraction and exponent, or no text.  A text is the sequence
\* of its characters
setMathInput ==
    /\ pc = "play" /\ game.ui.phase = "stopped" /\ ~game.ui.mathSolved
    /\ ~(game.ui.bOff = 0 /\ game.ui.bOn = 0)
    /\ \E text \in {<<>>} \cup {<<c>> : c \in {"0", "1", "2", "3", "4", "5", "9"}}
                         \cup {<<"0", "1">>, <<"0", "2">>, <<"1", "0">>, <<"-", "1">>,
                               <<"-", "0">>, <<".", "5">>, <<"1", ".", "0">>,
                               <<"1", ".", "9">>, <<"2", ".", "5">>, <<"1", "e", "3">>} :
          game' = [game EXCEPT !.mathInput = text]
    /\ UNCHANGED <<pc, stages, clock, provider, waypoints, cacheFile, outputFile, prevOutput,
                   traffic, ctl, graph, geom, out>>

\* parseInt(text, 10): blanks are skipped, a sign is taken, and the digits up
\* to the first character that is none are the number; <<n>> is the number n,
\* and <<>> is NaN, where no digit stands there
parseInt(text) ==
    LET digits == <<"0", "1", "2", "3", "4", "5", "6", "7", "8", "9">>
        isDigit(c) == \E d \in 1..10 : digits[d] = c
        RECURSIVE trim(_)
        trim(s) == IF s # <<>> /\ s[1] = " " THEN trim(Tail(s)) ELSE s
        signed == trim(text)
        body == IF signed # <<>> /\ signed[1] \in {"-", "+"} THEN Tail(signed) ELSE signed
        RECURSIVE value(_, _)
        value(k, n) ==
            IF k > Len(body) \/ ~isDigit(body[k]) THEN n
            ELSE value(k + 1, 10 * n + (CHOOSE d \in 1..10 : digits[d] = body[k]) - 1)
    IN IF body = <<>> \/ ~isDigit(body[1]) THEN <<>>
       ELSE IF signed[1] = "-" THEN <<-value(1, 0)>> ELSE <<value(1, 0)>>

\* checkMath, by the Check button or the Enter key of the answer box; NaN
\* equals no number
checkMath ==
    /\ pc = "play" /\ game.ui.phase = "stopped" /\ ~game.ui.mathSolved
    /\ ~(game.ui.bOff = 0 /\ game.ui.bOn = 0)
    /\ LET correct == game.ui.mathPrev - game.ui.bOff + game.ui.bOn
       IN game' = IF parseInt(game.mathInput) = <<correct>>
                  THEN [game EXCEPT !.mathSolved = TRUE, !.ui.mathSolved = TRUE,
                                    !.mathInput = <<>>]
                  ELSE game
    /\ UNCHANGED <<pc, stages, clock, provider, waypoints, cacheFile, outputFile, prevOutput,
                   traffic, ctl, graph, geom, out>>

SpecGame == InitGame /\ [][startPlay \/ animate \/ door \/ setMathInput \/ checkMath]_vars

\* ------------------------------------------------------------ properties

\* adj holds an edge from u to v
EdgeBetween(a, u, v) == \E k \in 1..Len(AdjGet(a, u)) : AdjGet(a, u)[k].to = v

\* the stages that come before the write
StagesBeforeWrite ==
    {"fetch", "graph", "route", "check", "project", "clean", "resample", "close", "match",
     "stops", "stubs"}

\* Rounding both coordinates of two points to a tenth moves their distance by at
\* most 2 * sqrt(2) * 0.5 < 1.5 tenths.
\* the distance of p and q is at most d tenths, up to rounding
AtMost(p, q, d) == 4 * DistSq(p, q) <= Sq(2 * d + 3)

\* the distance of p and q is at least d tenths, up to rounding
AtLeast(p, q, d) == 4 * DistSq(p, q) >= Sq(2 * d - 3)

\* C1: a second run on the same cached dataset and the same configuration, at a
\* later wall-clock time, leaves the output file exactly as the first run left it.
C1_ByteIdenticalOutput ==
    (runNo = 2 /\ pc = "exit" /\ exitCode = 0 /\ prevOutput.exists) => outputFile = prevOutput

\* C2: the polyline that leaves topology cleaning (the backtrack loop and the
\* collapse of points within 0.5) has a non-negative dot product of the incoming
\* and the outgoing segment at every interior point.
C2_NoBacktrackAfterCleaning ==
    pc = "resample" =>
        \A i \in 2..(Len(cleanRoute) - 1) :
            Dot(cleanRoute[i - 1], cleanRoute[i], cleanRoute[i + 1]) >= 0

\* C3 as claimed: consecutive resampled points are at most SAMPLE_INTERVAL apart up
\* to rounding, and no pair but the last is closer than the interval.
C3_OnlyLastShorter ==
    pc = "close" =>
        \A k \in 1..(Len(finalRoute) - 1) :
            /\ AtMost(finalRoute[k], finalRoute[k + 1], SAMPLE_INTERVAL * UNIT)
            /\ k < Len(finalRoute) - 1 =>
                   AtLeast(finalRoute[k], finalRoute[k + 1], SAMPLE_INTERVAL * UNIT)

\* C3 (amended): consecutive resampled points are at most SAMPLE_INTERVAL apart up
\* to rounding; two consecutive samples taken on one straight segment of the
\* cleaned polyline are SAMPLE_INTERVAL apart up to rounding, while a pair with a
\* bend between its points, like the last pair, may be closer.
C3_GapsWithinInterval ==
    pc = "close" =>
        LET cum == CumLen(cleanRoute, 2, <<0>>)
            n == Len(cleanRoute)
            step == SAMPLE_INTERVAL * UNIT
            segOf(j) == AdvanceSeg(cum, n, 1, (j - 1) * step)
        IN \A k \in 1..(Len(finalRoute) - 1) :
               /\ AtMost(finalRoute[k], finalRoute[k + 1], step)
               /\ (k * step < cum[Len(cum)] /\ segOf(k) = segOf(k + 1)) =>
                      AtLeast(finalRoute[k], finalRoute[k + 1], step)

\* a resampled route where rounding put a pair more than the interval apart and a
\* bend put a pair that is not the last closer than the interval
C3_Witness ==
    /\ pc = "close"
    /\ \E k \in 1..(Len(finalRoute) - 1) :
           4 * DistSq(finalRoute[k], finalRoute[k + 1]) > Sq(2 * SAMPLE_INTERVAL * UNIT)
    /\ \E k \in 1..(Len(finalRoute) - 2) :
           ~AtLeast(finalRoute[k], finalRoute[k + 1], SAMPLE_INTERVAL * UNIT)

\* C4: once closeLoop has run, the first and the last point of the route are at
\* most 5 apart: the route is the resampled one with a copy of its first point
\* appended if its ends were more than 5 apart, and the resampled one itself if not.
C4_LoopClosed ==
    pc \in {"match", "synth", "names", "stubs", "hung", "exit"} =>
        LET r == Resample(cleanRoute) IN
        /\ DistSq(finalRoute[1], finalRoute[Len(finalRoute)]) <= Sq(CLOSE_GAP * UNIT)
        /\ finalRoute = IF DistSq(r[1], r[Len(r)]) > Sq(CLOSE_GAP * UNIT)
                        THEN Append(r, r[1]) ELSE r

\* closeLoop has appended the first point to an open route
C4_Witness ==
    /\ pc = "match"
    /\ Len(finalRoute) = Len(Resample(cleanRoute)) + 1
    /\ Len(finalRoute) > 3

\* C5: in the stop list that main goes on with, from matchBusStops alone or from
\* the synthesis branch, the route indices increase strictly and the route points
\* of two adjacent stops are at least MIN_STOP_SPACING apart.
C5_StopsOrderedAndSpaced ==
    pc \in {"names", "stubs"} =>
        \A k \in 1..(Len(matchedStops) - 1) :
            /\ matchedStops[k].idx < matchedStops[k + 1].idx
            /\ DistSq(finalRoute[matchedStops[k].idx + 1],
                      finalRoute[matchedStops[k + 1].idx + 1]) >= Sq(MIN_STOP_SPACING * UNIT)

\* the synthesis branch has merged matched stops with synthetic ones
C5_Witness ==
    /\ pc = "names"
    /\ LET m == matchBusStops(finalRoute, gameStops, STOP_MATCH_RADIUS) IN
        /\ Len(m) \in 1..(MIN_STOPS - 1)
        /\ Len(matchedStops) > Len(m) + 1
        /\ \E k \in 1..Len(matchedStops) : \E j \in 1..Len(m) :
               matchedStops[k].idx = m[j].idx /\ matchedStops[k].name = m[j].name

\* C6: when buildRoute has returned a route that main accepts, every two
\* consecutive nodes of fullNodePath are joined by an edge of the graph.
C6_RouteFollowsEdges ==
    pc = "project" =>
        \A k \in 1..(Len(fullNodePath) - 1) :
            EdgeBetween(adj, fullNodePath[k], fullNodePath[k + 1])

\* C7: a path that dijkstra returns for a waypoint pair begins with the start
\* node, ends with the end node, and each of its steps is an edge of the graph in
\* both directions.
C7_PathIsInGraph ==
    (pc = "route" /\ pairIdx < Len(graphWaypoints)) =>
        LET path == PairPath(adj, graphWaypoints, pairIdx) IN
        path # NoPath =>
            /\ path[1] = PairFrom(graphWaypoints, pairIdx).nodeId
            /\ path[Len(path)] = PairTo(graphWaypoints, pairIdx).nodeId
            /\ \A k \in 1..(Len(path) - 1) :
                   EdgeBetween(adj, path[k], path[k + 1]) /\ EdgeBetween(adj, path[k + 1], path[k])

\* dijkstra is about to return a path of several edges
C7_Witness ==
    /\ pc = "route" /\ pairIdx < Len(graphWaypoints)
    /\ Len(PairPath(adj, graphWaypoints, pairIdx)) >= 3

\* C8: an iteration of buildRoute that finds no path leaves fullNodePath and
\* streetLabels as they were, logs one error and goes on to the next pair without
\* ending the run; once an error was logged the loop still visits every pair.
C8_NoPathIsSkipped ==
    /\ [][(/\ pc = "route" /\ pairIdx < Len(graphWaypoints)
           /\ PairPath(adj, graphWaypoints, pairIdx) = NoPath)
          => (/\ fullNodePath' = fullNodePath /\ streetLabels' = streetLabels
              /\ errors' = errors + 1 /\ pairIdx' = pairIdx + 1
              /\ pc' = "route" /\ exitCode' = exitCode)]_vars
    /\ [](errors > 0 => (pc = "route" \/ pairIdx = Len(graphWaypoints)))

\* a pair had no path, nodes were routed, and a later pair is about to be routed
C8_Witness ==
    /\ pc = "route" /\ pairIdx < Len(graphWaypoints)
    /\ errors > 0 /\ Len(fullNodePath) > 1
    /\ PairPath(adj, graphWaypoints, pairIdx) # NoPath

\* C9: a run that has fewer than 6 stops after the synthesis branch ends with a
\* non-zero exit code and has not written routeData.js.
C9_TooFewStopsIsFatal ==
    (pc = "exit" /\ "stops" \in stages /\ Len(matchedStops) < MIN_STOPS) =>
        (exitCode # 0 /\ writes = 0)

\* C10: a run writes routeData.js at most once, and only when every earlier stage
\* has completed and the route has at least 10 nodes; a run that has ended with a
\* non-zero exit code has not written it.
C10_WriteOnceAfterAllStages ==
    /\ writes <= 1
    /\ writes = 1 =>
           (StagesBeforeWrite \subseteq stages /\ Len(fullNodePath) >= MIN_ROUTE_POINTS)
    /\ (pc = "exit" /\ exitCode # 0) => writes = 0

\* a run has written the file and ended with exit code 0
C10_Witness == pc = "exit" /\ exitCode = 0 /\ writes = 1 /\ "write" \in stages

\* C11: fetchOverpass issues at most RETRIES requests, each attempt that is
\* answered 429 or 504 or throws being followed by the next one until the last;
\* a run that has ended without data, none of its attempts having fetched any,
\* has a non-zero exit code and has written neither the cache file nor
\* routeData.js.
C11_FetchBoundedThenFatal ==
    /\ [](attempt <= RETRIES)
    /\ [][(pc = "fetch" /\ pc' = "fetch") => attempt' = attempt + 1]_vars
    /\ [][(pc = "fetch" /\ attempt = RETRIES) => pc' \in {"graph", "exit"}]_vars
    /\ []((pc = "exit" /\ "fetch" \notin stages) =>
             /\ attempt \in 1..RETRIES /\ exitCode # 0
             /\ ~cacheFile.exists
             /\ writes = 0 /\ outputFile = prevOutput /\ ~outputFile.exists)

\* every attempt of a run has failed and the run has ended
C11_Witness ==
    pc = "exit" /\ "fetch" \notin stages /\ attempt = RETRIES /\ exitCode = 1

\* C12: while the cache file exists no request is under way or was made by the
\* run; getOsmData then returns the file's content at once; a fetch that succeeds
\* writes what it returns to the cache file, and the file stays as it is, so the
\* run after it reads the file and makes no request.
C12_CacheShortCircuits ==
    /\ [](cacheFile.exists => (pc # "fetch" /\ attempt = 0))
    /\ [][(pc = "start" /\ cacheFile.exists)
             => (pc' = "graph" /\ osmData' = cacheFile.data /\ attempt' = 0)]_vars
    /\ [][(pc = "fetch" /\ pc' = "graph")
             => (osmData' = provider /\ cacheFile' = FileOf(osmData'))]_vars
    /\ [][cacheFile.exists => cacheFile' = cacheFile]_vars

\* the second run has read the dataset from the cache file
C12_Witness ==
    /\ runNo = 2 /\ pc = "graph" /\ attempt = 0
    /\ cacheFile.exists /\ osmData = cacheFile.data /\ osmData = provider

\* C13: matchBusStops works on the stops within STOP_MATCH_RADIUS of a route point
\* alone: a stop farther than that from every route point is no candidate, and
\* the list returned is the list returned without it; every stop returned has
\* the name of a stop of the input whose nearest route point is the one at the
\* stop's index, no farther from it than the radius.
C13_FarStopsAreDropped ==
    [][pc = "match" =>
          LET radiusSq == Sq(STOP_MATCH_RADIUS * UNIT)
              far == {k \in 1..Len(gameStops) :
                         \A i \in 1..Len(finalRoute) :
                             DistSq(finalRoute[i], gameStops[k].gamePos) > radiusSq}
              nearStops == FilterOut(gameStops, far, 1)
              m == matchBusStops(finalRoute, gameStops, STOP_MATCH_RADIUS)
          IN /\ Candidates(finalRoute, gameStops, STOP_MATCH_RADIUS, 1)
                    = Candidates(finalRoute, nearStops, STOP_MATCH_RADIUS, 1)
             /\ Len(Candidates(finalRoute, gameStops, STOP_MATCH_RADIUS, 1))
                    = Len(gameStops) - Cardinality(far)
             /\ m = matchBusStops(finalRoute, nearStops, STOP_MATCH_RADIUS)
             /\ matchedStops' = assignStreetNames(m, simplifiedStreetLabels)
             /\ \A s \in 1..Len(m) :
                    \E k \in (1..Len(gameStops)) \ far :
                        /\ gameStops[k].name = m[s].name
                        /\ DistSq(finalRoute[m[s].idx + 1], gameStops[k].gamePos) <= radiusSq
                        /\ \A i \in 1..Len(finalRoute) :
                               DistSq(finalRoute[i], gameStops[k].gamePos)
                                   >= DistSq(finalRoute[m[s].idx + 1], gameStops[k].gamePos)]_vars

\* matchBusStops has returned stops of a list that holds a stop beyond the radius
C13_Witness ==
    /\ pc \in {"synth", "names"}
    /\ Len(matchBusStops(finalRoute, gameStops, STOP_MATCH_RADIUS)) >= 2
    /\ \E k \in 1..Len(gameStops) :
           \A i \in 1..Len(finalRoute) :
               DistSq(finalRoute[i], gameStops[k].gamePos) > Sq(STOP_MATCH_RADIUS * UNIT)

\* C14: in the list the deduplication pass of matchBusStops leaves, which is a
\* sublist of candidates, any two entries have indices at least DEDUP_WINDOW
\* apart; the stops matchBusStops returns are among them.
C14_DedupedAreApart ==
    pc \in {"synth", "names"} =>
        LET sorted == SortByIdx(Candidates(finalRoute, gameStops, STOP_MATCH_RADIUS, 1), 1, <<>>)
            deduped == Dedupe(sorted, 1, <<>>)
            m == matchBusStops(finalRoute, gameStops, STOP_MATCH_RADIUS)
        IN /\ \A i \in 1..Len(deduped) : \A j \in (i + 1)..Len(deduped) :
                  Abs(deduped[i].idx - deduped[j].idx) >= DEDUP_WINDOW
           /\ \A i \in 1..Len(deduped) : \E k \in 1..Len(sorted) : deduped[i] = sorted[k]
           /\ \A s \in 1..Len(m) : \E i \in 1..Len(deduped) : m[s] = StopOf(deduped[i])

\* the pass has collapsed candidates within the window and has kept several entries
C14_Witness ==
    /\ pc \in {"synth", "names"}
    /\ LET sorted == SortByIdx(Candidates(finalRoute, gameStops, STOP_MATCH_RADIUS, 1), 1, <<>>)
           deduped == Dedupe(sorted, 1, <<>>)
       IN /\ Len(deduped) >= 2 /\ Len(deduped) + 2 <= Len(sorted)
          /\ \E k \in 1..(Len(sorted) - 1) : sorted[k + 1].idx - sorted[k].idx \in {1, 2}

\* C16: whenever the deduplication pass meets a candidate within the window of an
\* entry it has kept, the entry it goes on with is the named one of the two if
\* exactly one has a name, and the one closer to the route otherwise.
C16_NamedThenCloserIsKept ==
    pc \in {"synth", "names"} =>
        LET sorted == SortByIdx(Candidates(finalRoute, gameStops, STOP_MATCH_RADIUS, 1), 1, <<>>)
            after(k) == Dedupe(SubSeq(sorted, 1, k), 1, <<>>)
        IN \A k \in 2..Len(sorted) :
               LET before == after(k - 1)
                   c == sorted[k]
                   near == {j \in 1..Len(before) : Abs(before[j].idx - c.idx) < DEDUP_WINDOW}
               IN near # {} =>
                      LET j == CHOOSE n \in near : \A h \in near : n <= h
                          kept == after(k)[j]
                      IN IF (before[j].name = <<>>) # (c.name = <<>>)
                         THEN kept = (IF c.name # <<>> THEN c ELSE before[j])
                         ELSE /\ kept \in {before[j], c}
                              /\ kept.dist <= before[j].dist /\ kept.dist <= c.dist

\* C15: when LOOP_WAYPOINTS are two waypoints whose nodes differ and are joined by
\* a way, so that both pairs are routed, the route that leaves resampling has at
\* least 2 points and extends over the whole target span.
C15_TwoWaypointRouteSpans ==
    (/\ "resample" \in stages /\ Len(graphWaypoints) = 2
     /\ graphWaypoints[1].nodeId # graphWaypoints[2].nodeId /\ errors = 0) =>
        LET zs == [k \in 1..Len(finalRoute) |-> finalRoute[k][2]] IN
        /\ Len(finalRoute) >= 2
        /\ SeqMax(zs) - SeqMin(zs) = TARGET_SPAN * UNIT

\* C17: once deduplicateStopNames has run, no two stops of the list have the
\* same display name.
C17_StopNamesDistinct ==
    "stops" \in stages =>
        \A i \in 1..Len(matchedStops) : \A j \in (i + 1)..Len(matchedStops) :
            matchedStops[i].name # matchedStops[j].name

\* C18: in the adjacency structure buildGraph returns, every key has one edge
\* list; each record u -> v has a record v -> u of the same weight and name; u and
\* v are in the node table; the record comes from two consecutive nodes of a way
\* of an allowed road class, with that way's name and the distance of the two
\* nodes; and u -> v has one record for every such place in the ways, so that
\* parallel ways stay apart.
C18_GraphIsSymmetricAndSound ==
    pc = "waypoints" =>
        LET els == osmData.elements
            ways == {w \in 1..Len(els) :
                        els[w].type = "way" /\ els[w].highway \in DRIVEABLE_TYPES}
            places(u, v) ==
                {p \in UNION {{<<w, i>> : i \in 1..(Len(els[w].nodes) - 1)} : w \in ways} :
                    {els[p[1]].nodes[p[2]], els[p[1]].nodes[p[2] + 1]} = {u, v}}
            keys == {adj.keys[k] : k \in 1..Len(adj.keys)}
        IN /\ Cardinality(keys) = Len(adj.keys) /\ DOMAIN adj.edges = keys
           /\ \A u \in keys : \A k \in 1..Len(adj.edges[u]) :
                  LET e == adj.edges[u][k] IN
                  /\ u \in DOMAIN nodes /\ e.to \in DOMAIN nodes
                  /\ e.to \in keys
                  /\ \E h \in 1..Len(adj.edges[e.to]) :
                         adj.edges[e.to][h] = [to |-> u, dist |-> e.dist, name |-> e.name]
                  /\ e.dist = haversineM(nodes[u], nodes[e.to])
                  /\ \E p \in places(u, e.to) : els[p[1]].name = e.name
                  /\ Cardinality({h \in 1..Len(adj.edges[u]) : adj.edges[u][h].to = e.to})
                         = Cardinality(places(u, e.to))

\* a graph built from a dataset with a way of a class that is not allowed, a way
\* to a node without coordinates, and two ways along the same two nodes
C18_Witness ==
    /\ pc = "waypoints"
    /\ \E w \in 1..Len(osmData.elements) :
           osmData.elements[w].type = "way" /\ osmData.elements[w].highway = "footway"
    /\ AdjHas(adj, 12) /\ ~AdjHas(adj, 10) /\ ~AdjHas(adj, 5)
    /\ Len(AdjGet(adj, 4)) = 2 /\ AdjGet(adj, 4)[1].to = AdjGet(adj, 4)[2].to
    /\ AdjGet(adj, 4)[1].name # AdjGet(adj, 4)[2].name

\* C19: when buildRoute has mapped the waypoints, the node findNearestNode
\* returned for a waypoint is a key of the adjacency
\* structure, and no key is nearer to the waypoint; nodes that are in the node
\* table alone play no part, however near.
C19_NearestIsConnected ==
    (pc = "route" /\ pairIdx = 0) =>
        \A k \in 1..Len(graphWaypoints) :
            LET id == graphWaypoints[k].nodeId
                lat == waypoints[k].lat
            IN /\ id = findNearestNode(nodes, adj, lat)
               /\ AdjHas(adj, id) /\ id \in DOMAIN nodes
               /\ \A j \in 1..Len(adj.keys) :
                      LengthOf(haversineM(lat, nodes[adj.keys[j]]))
                          >= LengthOf(haversineM(lat, nodes[id]))

\* a waypoint was mapped to a connected node although a node of the node table
\* that no accepted way refers to is strictly nearer
C19_Witness ==
    /\ pc = "route" /\ pairIdx = 0
    /\ \E k \in 1..Len(graphWaypoints) : \E n \in DOMAIN nodes :
           /\ ~AdjHas(adj, n)
           /\ LengthOf(haversineM(waypoints[k].lat, nodes[n]))
                  < LengthOf(haversineM(waypoints[k].lat, nodes[graphWaypoints[k].nodeId]))

\* C20: for the pair that buildRoute is about to route, dijkstra returns null
\* exactly when no walk along edges leads from the start node to the end node;
\* a path it returns starts and ends there, follows edges, and no walk from start
\* to end weighs less, each hop counted with its lightest edge; from a node to
\* itself the path is that node alone.
C20_DijkstraIsShortest ==
    (pc = "route" /\ pairIdx < Len(graphWaypoints)) =>
        LET s == PairFrom(graphWaypoints, pairIdx).nodeId
            t == PairTo(graphWaypoints, pairIdx).nodeId
            path == PairPath(adj, graphWaypoints, pairIdx)
            hops(u, v) == {k \in 1..Len(AdjGet(adj, u)) : AdjGet(adj, u)[k].to = v}
            hop(u, v) == LET ds == {LengthOf(AdjGet(adj, u)[k].dist) : k \in hops(u, v)}
                         IN CHOOSE d \in ds : \A o \in ds : d <= o
            RECURSIVE weight(_, _)
            weight(p, k) == IF k >= Len(p) THEN 0 ELSE hop(p[k], p[k + 1]) + weight(p, k + 1)
            walks == {p \in UNION {[1..n -> 1..MaxNode] : n \in 1..MaxNode} :
                         /\ p[1] = s /\ p[Len(p)] = t
                         /\ \A k \in 1..(Len(p) - 1) : hops(p[k], p[k + 1]) # {}}
        IN /\ (path = NoPath) <=> (walks = {})
           /\ s = t => path = <<s>>
           /\ path # NoPath =>
                  /\ path[1] = s /\ path[Len(path)] = t
                  /\ \A k \in 1..(Len(path) - 1) : hops(path[k], path[k + 1]) # {}
                  /\ \A p \in walks : weight(path, 1) <= weight(p, 1)

\* dijkstra has returned a path of three hops, two of them of weight 0, in a graph
\* with two heavier parallel edges from the start to the end and a self-loop, and
\* is about to route the way back
C20_Witness ==
    /\ pc = "route" /\ pairIdx = 1
    /\ fullNodePath = <<1, 2, 4, 3>>
    /\ Len(AdjGet(adj, 1)) = 3 /\ Len(AdjGet(adj, 2)) = 3
    /\ PairPath(adj, graphWaypoints, pairIdx) = <<3, 1>>

\* C21: fullNodePath never holds one node id at two consecutive positions; a
\* pair's path is appended without its leading node exactly when that node is
\* the last node of the route so far, and whole otherwise, also when the pair's
\* waypoints share a node and the path is that node alone.
C21_NoRepeatedNodeAtStitch ==
    /\ [](\A k \in 1..(Len(fullNodePath) - 1) : fullNodePath[k] # fullNodePath[k + 1])
    /\ [][(pc = "route" /\ pairIdx < Len(graphWaypoints)
              /\ PairPath(adj, graphWaypoints, pairIdx) # NoPath) =>
             LET path == PairPath(adj, graphWaypoints, pairIdx)
                 joined == fullNodePath # <<>> /\ path[1] = fullNodePath[Len(fullNodePath)]
             IN fullNodePath' = fullNodePath
                                   \o (IF joined THEN SubSeq(path, 2, Len(path)) ELSE path)]_vars

\* the path of the wrap-around pair was stitched to the path of the first pair at
\* the node they share
C21_Witness ==
    /\ pc = "route" /\ pairIdx = 2 /\ fullNodePath = <<1, 2, 4, 3, 1>>
    /\ graphWaypoints[1].nodeId = 1 /\ graphWaypoints[2].nodeId = 3

\* C22: the labels buildRoute appends with a pair's path are, for the node at a
\* position j > 0 of the path, the name of the edge from path[j-1] to path[j]
\* that the relaxation went along (the first of the edges between the two
\* nodes, which weighs no more than any other of them), and the origin
\* waypoint's name without its parenthetical where that edge has no name; the
\* node at position 0, when it is appended, gets the waypoint's name.
C22_LabelIsTraversedEdgeName ==
    [][(pc = "route" /\ pairIdx < Len(graphWaypoints)
          /\ PairPath(adj, graphWaypoints, pairIdx) # NoPath) =>
         LET path == PairPath(adj, graphWaypoints, pairIdx)
             from == PairFrom(graphWaypoints, pairIdx)
             start == IF fullNodePath # <<>> /\ path[1] = fullNodePath[Len(fullNodePath)]
                      THEN 2 ELSE 1
             label(j) ==
                 IF j = 1 THEN from.name.base
                 ELSE LET es == adj.edges[path[j - 1]]
                          hits == {h \in 1..Len(es) : es[h].to = path[j]}
                          light == {h \in hits : \A o \in hits :
                                       LengthOf(es[h].dist) <= LengthOf(es[o].dist)}
                          e == es[CHOOSE h \in light : \A o \in light : h <= o]
                      IN IF e.name # <<>> THEN e.name ELSE from.name.base
         IN streetLabels' =
                streetLabels \o [k \in 1..(Len(path) - start + 1) |-> label(k + start - 1)]]_vars

\* labels were appended for a path along a street without a name: the node
\* reached over the unnamed edge carries the origin waypoint's short name
C22_Witness ==
    /\ pc = "route" /\ pairIdx = 1 /\ Len(fullNodePath) >= 3
    /\ Len(streetLabels) = Len(fullNodePath)
    /\ \E k \in 2..Len(fullNodePath) :
          /\ EdgeBetween(adj, fullNodePath[k - 1], fullNodePath[k])
          /\ EdgeName(adj, fullNodePath[k - 1], fullNodePath[k]) = <<>>
          /\ streetLabels[k] = graphWaypoints[1].name.base
          /\ streetLabels[k] # <<>>

\* C23: the backtrack loop terminates for every polyline: a pass that leaves
\* cleanPass set has removed at least one interior point, the first and the
\* last point stay where they are, the pass that removes nothing leaves the
\* polyline as it is and ends the loop, and cleaning is left eventually.
C23_BacktrackLoopTerminates ==
    /\ [][(pc = "clean" /\ cleanPass) =>
            /\ cleanPass' => Len(cleanRoute') < Len(cleanRoute)
            /\ ~cleanPass' => cleanRoute' = cleanRoute /\ pc' = "clean"
            /\ Len(cleanRoute') >= 2
            /\ cleanRoute'[1] = cleanRoute[1]
            /\ cleanRoute'[Len(cleanRoute')] = cleanRoute[Len(cleanRoute)]]_vars
    /\ <>(pc = "resample")

\* the loop has ended after passes that removed points of the polyline
C23_Witness ==
    /\ pc = "clean" /\ ~cleanPass
    /\ Len(cleanRoute) < Len(gameRoute)
    /\ cleanRoute[1] = gameRoute[1]
    /\ cleanRoute[Len(cleanRoute)] = gameRoute[Len(gameRoute)]
    /\ ToRemove(cleanRoute) = {}

\* C24: any two emitted stubs have origins at least MIN_STUB_SPACING apart, and
\* no position of the route gets more than one stub.
C24_StubsAreSpaced ==
    pc = "write" =>
        /\ \A k \in 1..Len(sideRoads) : \A m \in (k + 1)..Len(sideRoads) :
               Sq(sideRoads[k].x - sideRoads[m].x) + Sq(sideRoads[k].z - sideRoads[m].z)
                   >= Sq(MIN_STUB_SPACING * UNIT)
        /\ Len(sideRoads) <= Cardinality({fullNodePath[m] : m \in 1..Len(fullNodePath)})

\* C25: stop synthesis terminates for every final route of at least one point
\* when fewer than MIN_STOPS stops were matched: the loop that steps i from 0 by
\* the stride while i < routeLen - 1 has a stride that advances, or no point to
\* visit, and the script is never left inside it.
C25_SynthesisTerminates ==
    /\ (pc = "synth" /\ Len(finalRoute) >= 1 /\ TooFewStops(matchedStops)) =>
           (Interval(Len(finalRoute)) > 0 \/ Len(finalRoute) - 1 <= 0)
    /\ pc # "hung"

\* C26: every stop that is emitted has an index idx with 0 <= idx <=
\* route.length - 1: the matched and the synthesized stops index a point of
\* finalRoute, and every stop written to routeData.js indexes a point of the
\* route written with it, which is what the game reads as ROUTE[STOPS[si].i]
\* (the file is looked at in the state right after writeRouteData wrote it).
C26_StopIdxInRoute ==
    /\ "match" \in stages =>
           \A k \in 1..Len(matchedStops) : matchedStops[k].idx \in 0..(Len(finalRoute) - 1)
    /\ (pc = "validate" /\ outputFile.exists) =>
           LET lines == outputFile.data.route
               RECURSIVE points(_)
               points(l) == IF l > Len(lines) THEN 0 ELSE Len(lines[l]) + points(l + 1)
           IN \A k \in 1..Len(outputFile.data.stops) :
                  outputFile.data.stops[k].i \in 0..(points(1) - 1)

\* a file was written whose stops include one at the first point of the route
\* and one past the middle of it
C26_Witness ==
    /\ pc = "validate" /\ outputFile.exists
    /\ Len(outputFile.data.stops) >= 2
    /\ outputFile.data.stops = [k \in 1..Len(matchedStops) |->
                                   [i |-> matchedStops[k].idx,
                                    n |-> EscapeQuotes(matchedStops[k].name)]]
    /\ matchedStops[1].idx = 0
    /\ 2 * matchedStops[Len(matchedStops)].idx > Len(finalRoute)

\* C27: after any sequence of frame updates and of pushes by the bus, segT of
\* every vehicle lies within [0, 1].
C27_SegTWithinSegment ==
    \A k \in 1..Len(traffic) : traffic[k].segT >= 0 /\ traffic[k].segT <= 4000000

\* C28: while stopped, the door action returns the game to playing only if
\* mathSolved is true.  On entering stopped mathSolved is false when a passenger
\* boards or alights there, and the panel holds the count on the bus before and
\* the numbers alighting and boarding, which stay as they are while stopped.
\* mathSolved then becomes true only through checkMath, the answer box holding
\* the number count before - alighted + boarded (a text of a sign, digits, a
\* fraction and an exponent stands for the number it writes); elsewhere only a
\* full reset sets it.
C28_DoorsWaitForTheSum ==
    [][game.phase \in {"menu", "playing", "stopped", "complete"} =>
        LET idx == 1..Len(game.pax)
            off == Cardinality({k \in idx : game.pax[k].on /\ game.pax[k].dest = game.nearIdx
                                               /\ ~game.pax[k].done})
            on == Cardinality({k \in idx : game.pax[k].origin = game.nearIdx
                                              /\ ~game.pax[k].on /\ ~game.pax[k].done})
            digits == <<"0", "1", "2", "3", "4", "5", "6", "7", "8", "9">>
            RECURSIVE num(_)
            num(s) == IF s = <<>> THEN 0
                      ELSE 10 * num(SubSeq(s, 1, Len(s) - 1))
                               + (CHOOSE d \in 1..10 : digits[d] = s[Len(s)]) - 1
            RECURSIVE pow10(_)
            pow10(k) == IF k = 0 THEN 1 ELSE 10 * pow10(k - 1)
            pos(c, s) == IF \E k \in 1..Len(s) : s[k] = c
                         THEN CHOOSE k \in 1..Len(s) : s[k] = c /\ \A j \in 1..(k - 1) : s[j] # c
                         ELSE Len(s) + 1
            holds(text, n) ==
                LET s == IF text[1] \in {"-", "+"} THEN Tail(text) ELSE text
                    mant == SubSeq(s, 1, pos("e", s) - 1)
                    exp == SubSeq(s, pos("e", s) + 1, Len(s))
                    int == SubSeq(mant, 1, pos(".", mant) - 1)
                    frac == SubSeq(mant, pos(".", mant) + 1, Len(mant))
                    m == num(int \o frac) * pow10(num(exp))
                IN (IF text[1] = "-" THEN -m ELSE m) = n * pow10(Len(frac))
        IN /\ (game.phase = "stopped" /\ game'.phase # "stopped") =>
                  game.mathSolved /\ game'.phase = "playing"
           /\ (game.phase # "stopped" /\ game'.phase = "stopped") =>
                  /\ game.phase = "playing"
                  /\ game'.mathSolved = (on = 0 /\ off = 0)
                  /\ game'.ui.mathPrev = game.onBus
                  /\ game'.ui.bOff = off /\ game'.ui.bOn = on
           /\ (game.phase = "stopped" /\ game'.phase = "stopped") =>
                  /\ game'.ui.mathPrev = game.ui.mathPrev
                  /\ game'.ui.bOff = game.ui.bOff /\ game'.ui.bOn = game.ui.bOn
           /\ (~game.mathSolved /\ game'.mathSolved) =>
                  \/ /\ game.phase = "stopped" /\ game'.phase = "stopped"
                     /\ game.mathInput # <<>>
                     /\ holds(game.mathInput,
                              game.ui.mathPrev - game.ui.bOff + game.ui.bOn)
                  \/ /\ game.phase = "complete" /\ game'.phase = "playing"
                     /\ game'.onBus = 0 /\ game'.mathPrev = 0 /\ game'.stoppedIdx = -1]_vars

\* C29: streetLabels holds one label per node of fullNodePath after every
\* waypoint pair, and the label list is as long as the polyline after every
\* pass of the backtrack removal and after the duplicate collapse.
C29_LabelsAlignWithRoute ==
    /\ Len(streetLabels) = Len(fullNodePath)
    /\ "project" \in stages => Len(cleanLabels) = Len(cleanRoute)

\* cleaning has removed points of a route of several pairs, and their labels
C29_Witness ==
    /\ pc = "resample" /\ pairIdx >= 2
    /\ Len(fullNodePath) >= 3 /\ Len(streetLabels) = Len(fullNodePath)
    /\ Len(cleanRoute) < Len(gameRoute) /\ Len(cleanRoute) >= 2
    /\ Len(cleanLabels) = Len(cleanRoute)

\* C30: after loop closure simplifiedStreetLabels is as long as finalRoute,
\* whether or not closeLoop appended a point.
C30_LabelsMatchClosedRoute ==
    "close" \in stages => Len(simplifiedStreetLabels) = Len(finalRoute)

====
